---- MODULE Spec2Model ----
(***************************************************************************)
(* shadow-reth: the shadow-execution pipeline.                             *)
(*                                                                         *)
(*   crates/exex    ShadowContracts, ShadowDatabase (state override),      *)
(*                  ShadowExecutor / ExecutedBlock::logs, ShadowExEx::exex *)
(*   crates/common  ShadowSqliteDb (the shadow_logs table), ShadowLog      *)
(*   crates/rpc     ValidatedQueryParams, exec_query, get_logs             *)
(*                                                                         *)
(* Byte strings (addresses, hashes, topics, bytecode) are abstract values; *)
(* a hex string is the triple <<"0x", bytes, letter case>>, so a           *)
(* conversion between bytes and text loses or keeps what the code loses or *)
(* keeps.  Integer columns of the table are TEXT: they hold the decimal    *)
(* digits of the number and SQLite compares them as text.                  *)
(***************************************************************************)
EXTENDS Integers, Sequences, FiniteSets, TLC

VARIABLES
    store,        \* the rows of table shadow_logs, in rowid order
    tasks,        \* the detached tokio tasks that have not finished yet
    published,    \* every block hash sent on the indexed-block-hash broadcast
    events,       \* the ExExEvents sent to the host
    exex,         \* state of the ShadowExEx::exex loop
    handled,      \* the notifications the loop has taken, oldest first
    rpc,          \* the last query of the RPC surface and its response
    provider,     \* the block provider the RPC surface resolves blocks with
    snapshot,     \* the historical state the ShadowDatabase wraps
    dbRead,       \* the last read the EVM made through the ShadowDatabase
    evm,          \* the environment of the EVM of the ShadowExecutor
    shadow        \* shadow.json and what ShadowContracts::try_from made of it

vars == <<store, tasks, published, events, exex, handled, rpc, provider,
          snapshot, dbRead, evm, shadow>>

(***************************************************************************)
(* Bounds of the model.                                                    *)
(***************************************************************************)
MaxNotifications == 2
MaxRows == 4

(***************************************************************************)
(* Option<T>: None is the empty tuple, Some(x) is <<x>> for scalars; a hex *)
(* string is already a tuple, so Option<String> is <<>> or the string.     *)
(***************************************************************************)
None == <<>>

Range(s) == {s[i] : i \in 1..Len(s)}

RECURSIVE Flatten(_)
\* the concatenation, in order, of a sequence of sequences
Flatten(ss) ==
    IF ss = <<>> THEN <<>> ELSE Head(ss) \o Flatten(Tail(ss))

RECURSIVE SelectSeqIdx(_, _, _)
\* the subsequence of s at the indices >= i (ascending) that are in keep
SelectSeqIdx(s, keep, i) ==
    IF i > Len(s) THEN <<>>
    ELSE (IF i \in keep THEN <<s[i]>> ELSE <<>>) \o SelectSeqIdx(s, keep, i + 1)

(***************************************************************************)
(* Text.  u64 values are formatted in decimal ({} of a u64) and parsed     *)
(* back with u64::from_str; SQLite's BINARY collation orders text by       *)
(* memcmp, a shorter string that is a prefix sorting first.                *)
(***************************************************************************)
RECURSIVE ToText(_)
ToText(n) == IF n < 10 THEN <<n>> ELSE ToText(n \div 10) \o <<n % 10>>

RECURSIVE FromText(_)
FromText(t) ==
    IF Len(t) = 1 THEN t[1]
    ELSE 10 * FromText(SubSeq(t, 1, Len(t) - 1)) + t[Len(t)]

RECURSIVE TextLeq(_, _)
TextLeq(s, t) ==
    IF s = <<>> THEN TRUE
    ELSE IF t = <<>> THEN FALSE
    ELSE IF s[1] # t[1] THEN s[1] < t[1]
    ELSE TextLeq(Tail(s), Tail(t))

(***************************************************************************)
(* u64 values.  The integers of the checker have 32 bits: the values       *)
(* u64::MAX - 15 ..= u64::MAX are held as their two's complement -16..-1,  *)
(* every other value as itself.  A character of a text is held as its      *)
(* distance from '0', so that digits are 0..9 and the order of the codes   *)
(* is the order of the bytes.                                              *)
(***************************************************************************)
DOT == -2

PLUS == -5

EXP == 53

\* 18446744073709551615 without its last two digits
U64MaxPrefix == <<1, 8, 4, 4, 6, 7, 4, 4, 0, 7, 3, 7, 0, 9, 5, 5, 1, 6>>

\* 9223372036854775807
I64MaxText == <<9, 2, 2, 3, 3, 7, 2, 0, 3, 6, 8, 5, 4, 7, 7, 5, 8, 0, 7>>

\* `{}` of a u64 and u64::to_string: the decimal digits
u64_to_string(n) ==
    IF n >= 0 THEN ToText(n)
    ELSE U64MaxPrefix \o <<(n + 16) \div 10, (n + 16) % 10>>

IsDigits(t) == t # <<>> /\ \A i \in DOMAIN t : t[i] >= 0 /\ t[i] <= 9

\* u64::from_str: None for a text that is not made of digits
u64_from_str(t) ==
    IF ~IsDigits(t) THEN None
    ELSE IF Len(t) = 20 THEN <<FromText(SubSeq(t, 19, 20)) - 16>>
    ELSE <<FromText(t)>>

\* hex::encode(n.to_be_bytes()): the 16 hex digits of the 8 bytes
hex_encode_be(n) ==
    [i \in 1..16 |-> IF i <= 8 THEN (IF n < 0 THEN 15 ELSE 0)
                     ELSE (n \div 16 ^ (16 - i)) % 16]

RECURSIVE Increment(_)
Increment(t) ==
    IF t = <<>> THEN <<1>>
    ELSE IF t[Len(t)] < 9
    THEN SubSeq(t, 1, Len(t) - 1) \o <<t[Len(t)] + 1>>
    ELSE Increment(SubSeq(t, 1, Len(t) - 1)) \o <<0>>

RECURSIVE StripZeros(_)
StripZeros(t) ==
    IF Len(t) > 1 /\ t[Len(t)] = 0 THEN StripZeros(SubSeq(t, 1, Len(t) - 1))
    ELSE t

\* SQLite's text of a REAL ("%!.15g"): 15 significant digits, rounded
RealText(t) ==
    LET m == IF t[16] >= 5 THEN Increment(SubSeq(t, 1, 15))
             ELSE SubSeq(t, 1, 15)
        e == Len(t) - 1 + (Len(m) - 15)
    IN <<m[1], DOT>> \o StripZeros(SubSeq(m, 2, 15)) \o <<EXP, PLUS>> \o ToText(e)

FitsI64(t) == Len(t) < 19 \/ (Len(t) = 19 /\ TextLeq(t, I64MaxText))

\* what a TEXT column holds after an unquoted numeric literal was inserted:
\* a literal beyond i64::MAX is a REAL to SQLite, stored as the REAL's text
IntegerLiteral(t) == IF FitsI64(t) THEN t ELSE RealText(t)

(***************************************************************************)
(* Hex strings.                                                            *)
(***************************************************************************)
HexCases == {"lower", "checksum", "upper"}

\* `{self:#x}` of a B256 / Address / Bytes: 0x-prefixed lowercase hex
to_lower_hex(bytes) == <<"0x", bytes, "lower">>

\* Address::to_string: the EIP-55 checksummed hex
AddressToString(a) == <<"0x", a, "checksum">>

\* hex::encode of a blob read back from the table, prefixed with 0x
HexEncode0x(blob) == <<"0x", blob, "lower">>

Hex(bytes) == to_lower_hex(bytes)

\* a string that is not 0x followed by hex digits of the expected length
Malformed == <<"0x", "zz">>

\* str::parse::<Address>() of a well-formed hex string: its bytes
ParseAddress(s) == s[2]

IsHex(s) == Len(s) = 3 /\ s[1] = "0x" /\ s[3] \in HexCases

\* the blob literal X'<s[2..]>' of SQLite: hex digits of either case
BlobLiteral(s) == s[2]

(***************************************************************************)
(* The universe of byte values.                                            *)
(***************************************************************************)
Addresses == {"a1", "a2", "a3"}
Balances == {0, 7}
Nonces == {0, 1}
OriginalCodes == {"o1"}

\* Bytecode::hash_slow: keccak256 of the code bytes
hash_slow(bytecode) == <<"keccak", bytecode>>

\* KECCAK_EMPTY: the hash of the empty code
KECCAK_EMPTY == hash_slow("")

(***************************************************************************)
(* ShadowContracts (crates/exex/src/contracts.rs), as loaded from          *)
(* shadow.json: a1 and a2 are shadowed, a3 is not.                         *)
(***************************************************************************)
contracts == [a \in {"a1", "a2"} |-> IF a = "a1" THEN "s1" ELSE "s2"]

code_hashes == [a \in DOMAIN contracts |-> hash_slow(contracts[a])]

\* ShadowContracts::code
code(address) ==
    IF address \in DOMAIN contracts THEN <<contracts[address]>> ELSE None

\* ShadowContracts::code_hash
code_hash(address) ==
    IF address \in DOMAIN code_hashes THEN <<code_hashes[address]>> ELSE None

\* ShadowContracts::is_shadowed
is_shadowed(address) == address \in DOMAIN contracts

(***************************************************************************)
(* ShadowDatabase (crates/exex/src/db.rs) over a StateProvider snapshot.   *)
(* basic_account(a) of the snapshot is an error, no account, or an         *)
(* Account {nonce, balance, bytecode_hash: Option<B256>}.                  *)
(***************************************************************************)
SnapshotCodeHashes ==
    {None} \cup {<<hash_slow(c)>> : c \in OriginalCodes \cup {"s1"}}

AccountStates ==
    {[tag |-> "err"], [tag |-> "none"]} \cup
    {[tag |-> "some", balance |-> b, nonce |-> n, bytecode_hash |-> h] :
        b \in Balances, n \in Nonces, h \in SnapshotCodeHashes}

Snapshots == [Addresses -> AccountStates]

NoSnapshot == [a \in Addresses |-> [tag |-> "none"]]

basic_ref_no_override(db, address) ==
    LET account == db[address] IN
    IF account.tag = "err" THEN [tag |-> "err"]
    ELSE IF account.tag = "none" THEN [tag |-> "none"]
    ELSE [tag |-> "some",
          balance |-> account.balance,
          nonce |-> account.nonce,
          code_hash |-> IF account.bytecode_hash # None
                           THEN account.bytecode_hash[1] ELSE KECCAK_EMPTY,
          code |-> code(address)]

basic_ref_drop_nonce(db, address) ==
    LET account == db[address] IN
    IF account.tag = "err" THEN [tag |-> "err"]
    ELSE IF account.tag = "none" THEN [tag |-> "none"]
    ELSE [tag |-> "some",
          balance |-> account.balance,
          nonce |-> 0,
          code_hash |-> IF code_hash(address) # None THEN code_hash(address)[1]
                        ELSE IF account.bytecode_hash # None
                           THEN account.bytecode_hash[1] ELSE KECCAK_EMPTY,
          code |-> code(address)]

\* DatabaseRef::basic_ref: Ok(None) when the snapshot has no account, the
\* error of the snapshot when the read fails, else the account with the code
\* hash and the code of the shadow contract when the address is shadowed
basic_ref(db, address) ==
    LET account == db[address] IN
    IF account.tag = "err" THEN [tag |-> "err"]
    ELSE IF account.tag = "none" THEN [tag |-> "none"]
    ELSE [tag |-> "some",
          balance |-> account.balance,
          nonce |-> account.nonce,
          code_hash |-> IF code_hash(address) # None THEN code_hash(address)[1]
                        ELSE IF account.bytecode_hash # None
                           THEN account.bytecode_hash[1] ELSE KECCAK_EMPTY,
          code |-> code(address)]

NoRead == [op |-> "none"]

(***************************************************************************)
(* DatabaseRef::block_hash_ref.  A U256 is written as its hexadecimal      *)
(* digits, most significant first and without leading zeros: it converts   *)
(* to a u64 exactly when it has at most 16 digits.  The snapshot answers   *)
(* block_hash(n) with an error, with None or with Some(hash).              *)
(***************************************************************************)
U64Digits == 16

Digits(d, n) == [i \in 1..n |-> d]

\* 9, 10, 2^64 - 1, 2^64 and 2^64 + 9
BlockNumbers ==
    {<<9>>, <<10>>, Digits(15, U64Digits), <<1>> \o Digits(0, U64Digits),
     <<1>> \o Digits(0, U64Digits - 1) \o <<9>>}

ZERO_HASH == <<"keccak", 0, "zero">>

BlockHashAnswers ==
    {[tag |-> "err"], [tag |-> "none"]} \cup
    {[tag |-> "some", hash |-> h] :
        h \in {<<"keccak", 9, "x">>, <<"keccak", 10, "x">>}}

block_hash_ref_truncating(db_block_hash, number) ==
    IF db_block_hash.tag = "err"
    THEN [tag |-> "err", error |-> "ProviderError", consulted |-> TRUE]
    ELSE [tag |-> "ok", consulted |-> TRUE,
          value |-> IF db_block_hash.tag = "none" THEN ZERO_HASH
                    ELSE db_block_hash.hash]

\* number.try_into() of a u64, then self.db.block_hash(n)?.unwrap_or_default()
block_hash_ref(db_block_hash, number) ==
    IF Len(number) > U64Digits
    THEN [tag |-> "err", error |-> "BlockNumberOverflow", consulted |-> FALSE]
    ELSE IF db_block_hash.tag = "err"
    THEN [tag |-> "err", error |-> "ProviderError", consulted |-> TRUE]
    ELSE [tag |-> "ok", consulted |-> TRUE,
          value |-> IF db_block_hash.tag = "none" THEN ZERO_HASH
                    ELSE db_block_hash.hash]

(***************************************************************************)
(* ShadowContracts::code_by_hash and DatabaseRef::code_by_hash_ref.  The   *)
(* snapshot answers bytecode_by_hash(h) with an error, with None or with   *)
(* Some(code).                                                             *)
(***************************************************************************)
CodeHashes == {hash_slow(c) : c \in {"s1", "s2", "o1", "u1"}}

BytecodeAnswers ==
    {[tag |-> "err"], [tag |-> "none"]} \cup
    {[tag |-> "some", code |-> c] : c \in OriginalCodes}

EmptyBytecode == ""

\* find_map over code_hashes: the code of an address whose hash it is
code_by_hash(hash) ==
    IF \E a \in DOMAIN code_hashes : code_hashes[a] = hash
    THEN code(CHOOSE a \in DOMAIN code_hashes : code_hashes[a] = hash)
    ELSE None

code_by_hash_ref_propagating(db_bytecode, hash) ==
    IF code_by_hash(hash) # None THEN [tag |-> "ok", value |-> code_by_hash(hash)[1]]
    ELSE IF db_bytecode.tag = "err" THEN [tag |-> "err"]
    ELSE [tag |-> "ok",
          value |-> IF db_bytecode.tag = "some" THEN db_bytecode.code
                    ELSE EmptyBytecode]

\* shadow.code_by_hash(h).unwrap_or_else(|| bytecode_by_hash(h).ok()
\*     .flatten().unwrap_or_default().0)
code_by_hash_ref(db_bytecode, hash) ==
    IF code_by_hash(hash) # None THEN [tag |-> "ok", value |-> code_by_hash(hash)[1]]
    ELSE [tag |-> "ok",
          value |-> IF db_bytecode.tag = "some" THEN db_bytecode.code
                    ELSE EmptyBytecode]

(***************************************************************************)
(* Blocks as the host delivers them.  A header is (number, extra); the     *)
(* block hash is the keccak of the header.  Two blocks of one height with  *)
(* different headers are the two sides of a reorg.                         *)
(***************************************************************************)
Blocks ==
    {[number |-> 9, extra |-> "x", transactions |-> <<"x1", "x2">>],
     [number |-> 10, extra |-> "x", transactions |-> <<"x3">>]}

\* Block::hash_slow / Header::hash_slow
block_hash_slow(block) == <<"keccak", block.number, block.extra>>

block_timestamp(block) == 12 * block.number

\* header.base_fee_per_gas
base_fee_per_gas(block) == IF block.number = 9 THEN 7 ELSE 0

(***************************************************************************)
(* The block environment of the executor's EVM.  EvmBuilder::default()     *)
(* gives the default BlockEnv; configure_evm fills it from the header as   *)
(* delivered (fill_cfg_and_block_env with total difficulty zero).          *)
(***************************************************************************)
NoEvm == [number |-> 0, timestamp |-> 0, basefee |-> 0]

configure_evm(block) ==
    [number |-> block.number,
     timestamp |-> block_timestamp(block),
     basefee |-> base_fee_per_gas(block)]

BlockHashes == {block_hash_slow(b) : b \in Blocks}

\* a Chain of a notification: consecutive blocks, never empty
Chains ==
    {<<b>> : b \in Blocks} \cup
    {<<b, c>> : b \in {x \in Blocks : x.number = 9},
                c \in {x \in Blocks : x.number = 10}}

(***************************************************************************)
(* What the EVM may emit for one transaction under shadow bytecode: the    *)
(* log lists of its ExecutionResult.  a3 is not shadowed.                  *)
(***************************************************************************)
EvmLog(a, ts) == [address |-> a, topics |-> ts, data |-> "d1"]

TxLogChoices(transaction) ==
    CASE transaction = "x1" ->
            {<<EvmLog("a3", <<"t2">>), EvmLog("a1", <<"t1">>)>>}
      [] transaction = "x2" ->
            {<<EvmLog("a1", <<"t1">>), EvmLog("a2", <<"t1", "t2">>)>>}
      [] OTHER ->
            {<<>>, <<EvmLog("a2", <<"t2", "t1">>)>>}

\* Option<&B256> -> Option<String>: topics().get(k).map(to_lower_hex)
TopicAt(log, k) ==
    IF k + 1 <= Len(log.topics) THEN to_lower_hex(log.topics[k + 1]) ELSE None

(***************************************************************************)
(* ShadowExecutor::execute_one.  Each transaction is skipped (signer not   *)
(* recovered, or an EVM error) or executed; the executed ones are inserted *)
(* into `results`, a HashMap<TransactionSigned, ExecutionResult>, whose    *)
(* iteration order is unspecified.  An outcome is one iteration order of   *)
(* one such map: a sequence of [transaction, logs] without repetition.     *)
(***************************************************************************)
ExecutedSubsets(block) == SUBSET (1..Len(block.transactions))

ResultOrders(block, executed) ==
    {order \in [1..Cardinality(executed) -> executed] :
        \A i, j \in DOMAIN order : i # j => order[i] # order[j]}

execute_one_mutated_header(block) ==
    {[block |-> block,
      canonical_block_hash |-> block_hash_slow([block EXCEPT !.extra = "z"]),
      results |-> [i \in DOMAIN order |->
                     [transaction |-> block.transactions[order[i]],
                      logs |-> logsOf[order[i]]]]] :
        <<order, logsOf>> \in
            UNION {ResultOrders(block, executed) \X
                   {f \in [executed -> UNION {TxLogChoices(t) :
                                                t \in Range(block.transactions)}] :
                       \A k \in executed :
                           f[k] \in TxLogChoices(block.transactions[k])} :
                      executed \in ExecutedSubsets(block)}}

execute_one(block) ==
    {[block |-> block,
      canonical_block_hash |-> block_hash_slow(block),
      results |-> [i \in DOMAIN order |->
                     [transaction |-> block.transactions[order[i]],
                      logs |-> logsOf[order[i]]]]] :
        <<order, logsOf>> \in
            UNION {ResultOrders(block, executed) \X
                   {f \in [executed -> UNION {TxLogChoices(t) :
                                                t \in Range(block.transactions)}] :
                       \A k \in executed :
                           f[k] \in TxLogChoices(block.transactions[k])} :
                      executed \in ExecutedSubsets(block)}}

(***************************************************************************)
(* The state changes execute_one commits to the layered database: commit   *)
(* is called once for every transaction that reaches results.insert, in    *)
(* the order of the block's transaction list; a `continue` commits         *)
(* nothing.                                                                *)
(***************************************************************************)
committed_transactions_every(executed_block) ==
    executed_block.block.transactions

committed_transactions(executed_block) ==
    LET txs == executed_block.block.transactions
        inserted == {executed_block.results[i].transaction :
                        i \in DOMAIN executed_block.results}
    IN  SelectSeqIdx(txs, {k \in DOMAIN txs : txs[k] \in inserted}, 1)

(***************************************************************************)
(* ExecutedBlock::logs.  block_log_index is captured by value by the inner *)
(* `move` closure: each transaction's closure increments its own copy of   *)
(* the counter, which starts from 0 again for every transaction.           *)
(***************************************************************************)
ShadowLogOf(executed_block, transaction_index, transaction, transaction_log_index, log, removed) ==
    [address |-> to_lower_hex(log.address),
     block_hash |-> to_lower_hex(executed_block.canonical_block_hash),
     block_log_index |-> transaction_log_index + 1,
     block_number |-> executed_block.block.number,
     block_timestamp |-> block_timestamp(executed_block.block),
     transaction_index |-> transaction_index,
     transaction_hash |-> to_lower_hex(transaction),
     transaction_log_index |-> transaction_log_index,
     removed |-> removed,
     data |-> to_lower_hex(log.data),
     topic_0 |-> TopicAt(log, 0),
     topic_1 |-> TopicAt(log, 1),
     topic_2 |-> TopicAt(log, 2),
     topic_3 |-> TopicAt(log, 3)]

logs_created_removed(executed_block) ==
    LET Indexed == [i \in DOMAIN executed_block.results |->
                      [idx |-> i - 1, r |-> executed_block.results[i]]]
        OfTx(e) == [j \in DOMAIN e.r.logs |->
                      ShadowLogOf(executed_block, e.idx, e.r.transaction,
                                  j - 1, e.r.logs[j], TRUE)]
    IN Flatten([i \in DOMAIN Indexed |-> OfTx(Indexed[i])])

logs(executed_block) ==
    LET Indexed == [i \in DOMAIN executed_block.results |->
                      [idx |-> i - 1, r |-> executed_block.results[i]]]
        OfTx(e) == [j \in DOMAIN e.r.logs |->
                      ShadowLogOf(executed_block, e.idx, e.r.transaction,
                                  j - 1, e.r.logs[j], FALSE)]
    IN Flatten([i \in DOMAIN Indexed |-> OfTx(Indexed[i])])

(***************************************************************************)
(* ShadowSqliteDb (crates/common/src/db.rs): table shadow_logs.            *)
(* Integer values go into TEXT columns (decimal digits); hashes, addresses *)
(* and topics are written as blob literals X'..' of the hex digits after   *)
(* the 0x.                                                                 *)
(***************************************************************************)
OptBlob(s) == IF s = None THEN "NULL" ELSE BlobLiteral(s)

RowOf(log) ==
    [block_number |-> IntegerLiteral(u64_to_string(log.block_number)),
     block_hash |-> BlobLiteral(log.block_hash),
     block_timestamp |-> IntegerLiteral(u64_to_string(log.block_timestamp)),
     transaction_index |-> IntegerLiteral(u64_to_string(log.transaction_index)),
     transaction_hash |-> BlobLiteral(log.transaction_hash),
     block_log_index |-> IntegerLiteral(u64_to_string(log.block_log_index)),
     transaction_log_index |-> IntegerLiteral(u64_to_string(log.transaction_log_index)),
     address |-> BlobLiteral(log.address),
     data |-> OptBlob(log.data),
     topic_0 |-> OptBlob(log.topic_0),
     topic_1 |-> OptBlob(log.topic_1),
     topic_2 |-> OptBlob(log.topic_2),
     topic_3 |-> OptBlob(log.topic_3),
     removed |-> log.removed]

\* bulk_insert_into_shadow_log_table: one INSERT statement with one VALUES
\* tuple per log; with no log the statement ends after VALUES and SQLite
\* rejects it.  io is FALSE when the store fails.
bulk_insert_ok(table, shadow_logs, io) == io /\ shadow_logs # <<>>

bulk_insert_into_shadow_log_table_replacing(table, shadow_logs, io) ==
    IF bulk_insert_ok(table, shadow_logs, io)
    THEN [i \in DOMAIN shadow_logs |-> RowOf(shadow_logs[i])]
    ELSE table

bulk_insert_into_shadow_log_table_row_by_row(table, shadow_logs, io) ==
    IF shadow_logs = <<>> THEN table
    ELSE IF io
    THEN table \o [i \in DOMAIN shadow_logs |-> RowOf(shadow_logs[i])]
    ELSE Append(table, RowOf(shadow_logs[1]))

bulk_insert_into_shadow_log_table(table, shadow_logs, io) ==
    IF bulk_insert_ok(table, shadow_logs, io)
    THEN table \o [i \in DOMAIN shadow_logs |-> RowOf(shadow_logs[i])]
    ELSE table

handle_block_reorg_delete(table, block_hash, io) ==
    IF io
    THEN LET Keep(i) ==
                 table[i].block_hash # BlobLiteral(to_lower_hex(block_hash))
         IN SelectSeqIdx(table, {i \in DOMAIN table : Keep(i)}, 1)
    ELSE table

handle_block_reorg_all_rows(table, block_hash, io) ==
    IF io THEN [i \in DOMAIN table |-> [table[i] EXCEPT !.removed = TRUE]]
    ELSE table

\* handle_block_reorg: UPDATE shadow_logs SET removed = true
\*                     WHERE block_hash = X'<lower hex of block_hash>'
handle_block_reorg(table, block_hash, io) ==
    IF io
    THEN [i \in DOMAIN table |->
            IF table[i].block_hash = BlobLiteral(to_lower_hex(block_hash))
            THEN [table[i] EXCEPT !.removed = TRUE]
            ELSE table[i]]
    ELSE table

(***************************************************************************)
(* The query surface (crates/rpc/src/shadow_logs_query.rs).                *)
(*                                                                         *)
(* The block provider answers block_by_number_or_tag and block_by_hash     *)
(* with Some(block) or None.                                               *)
(***************************************************************************)
INTERNAL_ERROR_CODE == -32603
BLOCK_ID_ERROR_CODE == -1
CONFLICT_ERROR_CODE == -32001
TOPICS_ERROR_CODE == 32002
MaxTopics == 4

Err(c) == [tag |-> "err", code |-> c]
Ok(v) == [tag |-> "ok", value |-> v]

FullProvider ==
    [tags |-> [t \in {"latest", "earliest"} |->
                 IF t = "latest" THEN <<10>> ELSE <<0>>],
     hashes |-> [h \in BlockHashes |-> <<h[2]>>]]

EmptyProvider ==
    [tags |-> [t \in {"latest", "earliest"} |-> None],
     hashes |-> [h \in BlockHashes |-> None]]

block_by_number_or_tag(p, tag) == p.tags[tag]

block_by_hash(p, h) == IF h \in DOMAIN p.hashes THEN p.hashes[h] ELSE None

\* addr.parse::<Address>(): hex digits of either case, else an error
ParsesAsAddress(s) == IsHex(s) /\ s[2] \in Addresses

RECURSIVE validate_address_list(_)
validate_address_list(array) ==
    IF array = <<>> THEN Ok(<<>>)
    ELSE IF ~ParsesAsAddress(Head(array)) THEN Err(INTERNAL_ERROR_CODE)
    ELSE LET rest == validate_address_list(Tail(array)) IN
         IF rest.tag = "err" THEN rest
         ELSE Ok(<<AddressToString(ParseAddress(Head(array)))>> \o rest.value)

validate_addresses_first_only(address) ==
    IF address = None THEN Ok(<<>>)
    ELSE LET repr == address[1] IN
         CASE repr.kind = "String" -> validate_address_list(repr.v)
           [] repr.kind = "ArrayOfStrings" ->
                validate_address_list(SubSeq(repr.v, 1, 1))
           [] repr.kind = "Bytes" ->
                Ok(<<AddressToString(ParseAddress(repr.v[1]))>>)

\* ValidatedQueryParams::validate_addresses
validate_addresses(address) ==
    IF address = None THEN Ok(<<>>)
    ELSE LET repr == address[1] IN
         CASE repr.kind = "String" -> validate_address_list(repr.v)
           [] repr.kind = "ArrayOfStrings" -> validate_address_list(repr.v)
           [] repr.kind = "Bytes" ->
                Ok(<<AddressToString(ParseAddress(repr.v[1]))>>)

validate_topics_reject_four(topics) ==
    IF topics = None THEN Ok([k \in 0..3 |-> None])
    ELSE IF Len(topics[1]) >= MaxTopics THEN Err(TOPICS_ERROR_CODE)
    ELSE Ok([k \in 0..3 |-> IF k + 1 <= Len(topics[1])
                            THEN topics[1][k + 1] ELSE None])

\* ValidatedQueryParams::validate_topics: Option<Vec<String>> to
\* [Option<String>; 4], positions filled from the front
validate_topics(topics) ==
    IF topics = None THEN Ok([k \in 0..3 |-> None])
    ELSE IF Len(topics[1]) > MaxTopics THEN Err(TOPICS_ERROR_CODE)
    ELSE Ok([k \in 0..3 |-> IF k + 1 <= Len(topics[1])
                            THEN topics[1][k + 1] ELSE None])

\* BlockNumberOrTag::from_str followed by the lookup of a tag: a block
\* string is <<"tag", name>>, <<"num", n>> or unparsable
ResolveBlock(p, s) ==
    IF Len(s) = 2 /\ s[1] = "num" THEN Ok(s[2])
    ELSE IF Len(s) = 2 /\ s[1] = "tag"
         THEN (IF block_by_number_or_tag(p, s[2]) = None
               THEN Err(BLOCK_ID_ERROR_CODE)
               ELSE Ok(block_by_number_or_tag(p, s[2])[1]))
    ELSE Err(BLOCK_ID_ERROR_CODE)

ResolveOrLatest_earliest(p, s) ==
    IF s = None THEN ResolveBlock(p, <<"tag", "earliest">>) ELSE ResolveBlock(p, s)

\* a missing end of the range is the provider's block of tag latest
ResolveOrLatest(p, s) ==
    IF s = None THEN ResolveBlock(p, <<"tag", "latest">>) ELSE ResolveBlock(p, s)

BlockRange(from, to) == [tag |-> "BlockRange", from |-> from, to |-> to]
BlockHash(h) == [tag |-> "BlockHash", block_hash |-> h]

validate_block_id_hash_wins(p, block_hash, from_block, to_block, resolve_block_hash) ==
    IF block_hash = None
    THEN LET from == ResolveOrLatest(p, from_block)
             to == ResolveOrLatest(p, to_block)
         IN IF from.tag = "err" THEN from
            ELSE IF to.tag = "err" THEN to
            ELSE Ok(BlockRange(from.value, to.value))
    ELSE IF resolve_block_hash
         THEN (IF ~IsHex(block_hash) THEN Err(BLOCK_ID_ERROR_CODE)
               ELSE IF block_by_hash(p, block_hash[2]) = None
                    THEN Err(BLOCK_ID_ERROR_CODE)
               ELSE LET num == block_by_hash(p, block_hash[2])[1]
                    IN Ok(BlockRange(num, num)))
    ELSE Ok(BlockHash(block_hash))

\* ValidatedQueryParams::validate_block_id
validate_block_id(p, block_hash, from_block, to_block, resolve_block_hash) ==
    IF block_hash = None
    THEN LET from == ResolveOrLatest(p, from_block)
             to == ResolveOrLatest(p, to_block)
         IN IF from.tag = "err" THEN from
            ELSE IF to.tag = "err" THEN to
            ELSE Ok(BlockRange(from.value, to.value))
    ELSE IF from_block = None /\ to_block = None
         THEN (IF resolve_block_hash
               THEN (IF ~IsHex(block_hash) THEN Err(BLOCK_ID_ERROR_CODE)
                     ELSE IF block_by_hash(p, block_hash[2]) = None
                          THEN Err(BLOCK_ID_ERROR_CODE)
                     ELSE LET num == block_by_hash(p, block_hash[2])[1]
                          IN Ok(BlockRange(num, num)))
               ELSE Ok(BlockHash(block_hash)))
    ELSE Err(CONFLICT_ERROR_CODE)

\* ValidatedQueryParams::from_get_logs_parameters: addresses, then the
\* block id, then the topics; the first error is returned
from_get_logs_parameters(p, params) ==
    LET addresses == validate_addresses(params.address)
        block_id == validate_block_id(p, params.block_hash, params.from_block,
                                      params.to_block, TRUE)
        topics == validate_topics(params.topics)
    IN IF addresses.tag = "err" THEN addresses
       ELSE IF block_id.tag = "err" THEN block_id
       ELSE IF topics.tag = "err" THEN topics
       ELSE Ok([block_id |-> block_id.value, addresses |-> addresses.value,
                topics |-> topics.value])

from_subscribe_parameters_resolving(p, params, block_hash) ==
    LET addresses == validate_addresses(params.address)
        topics == validate_topics(params.topics)
        block_id == validate_block_id(p, block_hash, None, None, TRUE)
    IN IF addresses.tag = "err" THEN addresses
       ELSE IF topics.tag = "err" THEN topics
       ELSE IF block_id.tag = "err" THEN block_id
       ELSE Ok([block_id |-> block_id.value, addresses |-> addresses.value,
                topics |-> topics.value])

\* ValidatedQueryParams::from_subscribe_parameters: addresses, then the
\* topics, then the block hash kept as it was received
from_subscribe_parameters(p, params, block_hash) ==
    LET addresses == validate_addresses(params.address)
        topics == validate_topics(params.topics)
        block_id == validate_block_id(p, block_hash, None, None, FALSE)
    IN IF addresses.tag = "err" THEN addresses
       ELSE IF topics.tag = "err" THEN topics
       ELSE IF block_id.tag = "err" THEN block_id
       ELSE Ok([block_id |-> block_id.value, addresses |-> addresses.value,
                topics |-> topics.value])

(***************************************************************************)
(* impl Display for ValidatedQueryParams and exec_query.  The WHERE clause *)
(* is built from blob literals X'<s[2..]>'; a string that is not 0x plus   *)
(* hex digits gives a statement SQLite rejects.  block_number is a TEXT    *)
(* column: SQLite gives the integer literals of BETWEEN text affinity and  *)
(* compares the decimal strings.                                           *)
(***************************************************************************)
RowTopic(row, k) ==
    CASE k = 0 -> row.topic_0
      [] k = 1 -> row.topic_1
      [] k = 2 -> row.topic_2
      [] k = 3 -> row.topic_3

\* every X'..' literal of the statement is 0x-prefixed hex
LiteralsWellFormed(query_params) ==
    /\ \A i \in DOMAIN query_params.addresses : IsHex(query_params.addresses[i])
    /\ query_params.block_id.tag = "BlockHash" =>
           IsHex(query_params.block_id.block_hash)
    /\ \A k \in 0..3 :
           query_params.topics[k] # None => IsHex(query_params.topics[k])

block_range_clause_any_hash(block_id, row) ==
    IF block_id.tag = "BlockHash"
    THEN TRUE
    ELSE /\ TextLeq(ToText(block_id.from), row.block_number)
         /\ TextLeq(row.block_number, ToText(block_id.to))

\* block_hash = X'..'  |  block_number BETWEEN from AND to
block_range_clause(block_id, row) ==
    IF block_id.tag = "BlockHash"
    THEN row.block_hash = BlobLiteral(block_id.block_hash)
    ELSE /\ TextLeq(ToText(block_id.from), row.block_number)
         /\ TextLeq(row.block_number, ToText(block_id.to))

address_clause_always(addresses, row) ==
    row.address \in {BlobLiteral(a) : a \in Range(addresses)}

\* address IN (X'..', ...), present only when the list is not empty
address_clause(addresses, row) ==
    addresses # <<>> =>
        row.address \in {BlobLiteral(a) : a \in Range(addresses)}

\* topic_k = X'..', present only for the positions that hold a topic
topic_clause(topics, k, row) ==
    topics[k] # None => RowTopic(row, k) = BlobLiteral(topics[k])

\* the WHERE clause of fmt: the clauses that are present, joined by AND
fmt(query_params, row) ==
    /\ address_clause(query_params.addresses, row)
    /\ block_range_clause(query_params.block_id, row)
    /\ \A k \in 0..3 : topic_clause(query_params.topics, k, row)

OptHex(blob) == IF blob = "NULL" THEN None ELSE HexEncode0x(blob)

\* the five u64::from_str(..)? of the conversion all succeed
RowParses(value) ==
    /\ u64_from_str(value.block_log_index) # None
    /\ u64_from_str(value.block_number) # None
    /\ u64_from_str(value.block_timestamp) # None
    /\ u64_from_str(value.transaction_index) # None
    /\ u64_from_str(value.transaction_log_index) # None

\* impl TryFrom<RawGetLogsRow> for ShadowLog
ShadowLogFromRow(value) ==
    [address |-> HexEncode0x(value.address),
     block_hash |-> HexEncode0x(value.block_hash),
     block_log_index |-> u64_from_str(value.block_log_index)[1],
     block_number |-> u64_from_str(value.block_number)[1],
     block_timestamp |-> u64_from_str(value.block_timestamp)[1],
     transaction_index |-> u64_from_str(value.transaction_index)[1],
     transaction_hash |-> HexEncode0x(value.transaction_hash),
     transaction_log_index |-> u64_from_str(value.transaction_log_index)[1],
     removed |-> value.removed,
     data |-> OptHex(value.data),
     topic_0 |-> OptHex(value.topic_0),
     topic_1 |-> OptHex(value.topic_1),
     topic_2 |-> OptHex(value.topic_2),
     topic_3 |-> OptHex(value.topic_3)]

\* exec_query: SELECT ... FROM shadow_logs WHERE ..., rows in rowid order
exec_query(query_params, table) ==
    IF ~LiteralsWellFormed(query_params)
    THEN Err(INTERNAL_ERROR_CODE)
    ELSE LET Keep(i) == fmt(query_params, table[i])
             raw_rows == SelectSeqIdx(table, {i \in DOMAIN table : Keep(i)}, 1)
         IN IF \E i \in DOMAIN raw_rows : ~RowParses(raw_rows[i])
            THEN Err(INTERNAL_ERROR_CODE)
            ELSE Ok([i \in DOMAIN raw_rows |-> ShadowLogFromRow(raw_rows[i])])

\* impl From<ShadowLog> for RpcLog: the block number as the hex of its
\* big-endian bytes, both indexes in decimal
RpcLogFrom(value) ==
    [address |-> value.address,
     block_hash |-> value.block_hash,
     block_number |-> hex_encode_be(value.block_number),
     data |-> value.data,
     log_index |-> u64_to_string(value.block_log_index),
     removed |-> value.removed,
     topics |-> <<value.topic_0, value.topic_1, value.topic_2, value.topic_3>>,
     transaction_hash |-> value.transaction_hash,
     transaction_index |-> u64_to_string(value.transaction_index)]

\* the outcome of one query of the RPC surface: the validated parameters,
\* whether a statement was run, the rows it returned and the response
QueryOutcome(op, params, block_hash, validated, table) ==
    LET result == IF validated.tag = "ok"
                  THEN exec_query(validated.value, table) ELSE validated
    IN [op |-> op, params |-> params, block_hash |-> block_hash,
        validated |-> validated,
        queried |-> validated.tag = "ok",
        resp |-> IF result.tag = "ok"
                 THEN Ok([i \in DOMAIN result.value |->
                            RpcLogFrom(result.value[i])])
                 ELSE result]

\* get_logs: validate, query, convert
get_logs(p, params, table) ==
    QueryOutcome("get_logs", params, None,
                 from_get_logs_parameters(p, params), table)

\* one iteration of handle_accepted for a received block hash
subscription_query(p, params, block_hash, table) ==
    QueryOutcome("subscribe", params, block_hash,
                 from_subscribe_parameters(p, params, block_hash), table)

(***************************************************************************)
(* impl TryFrom<Value> for ShadowContracts (crates/exex/src/contracts.rs). *)
(* shadow.json is a JSON value; an object is the sequence of its entries   *)
(* in the iteration order of the map, with distinct keys.  An entry is     *)
(* valid when its key parses as an address and its value is a string of    *)
(* hex bytes.                                                              *)
(***************************************************************************)
ConfigKeys == {Hex("a1"), <<"0x", "a1", "upper">>, Hex("a2"), Malformed}

ConfigValues ==
    {[kind |-> "string", s |-> Hex("s1")], [kind |-> "string", s |-> Hex("s2")],
     [kind |-> "string", s |-> Malformed], [kind |-> "number", s |-> Hex("s1")]}

ConfigEntries == [key : ConfigKeys, value : ConfigValues]

MaxConfigEntries == 2

Configs ==
    {[kind |-> "array", entries |-> <<>>]} \cup
    {[kind |-> "object", entries |-> es] :
        es \in {e \in UNION {[1..n -> ConfigEntries] : n \in 0..MaxConfigEntries} :
                   \A i, j \in DOMAIN e : i # j => e[i].key # e[j].key}}


EntryValid(entry) ==
    /\ ParsesAsAddress(entry.key)
    /\ entry.value.kind = "string"
    /\ IsHex(entry.value.s)

try_from_skip_invalid(value) ==
    IF value.kind # "object" THEN [tag |-> "err"]
    ELSE LET es == value.entries
             valid == {i \in DOMAIN es : EntryValid(es[i])}
             keys == {ParseAddress(es[i].key) : i \in valid}
             last(a) == CHOOSE i \in valid :
                           /\ ParseAddress(es[i].key) = a
                           /\ \A j \in valid :
                                 ParseAddress(es[j].key) = a => j <= i
             map == [a \in keys |-> es[last(a)].value.s[2]]
         IN [tag |-> "ok", contracts |-> map,
             code_hashes |-> [a \in keys |-> hash_slow(map[a])]]

\* try_from: the first invalid entry aborts (collect of Results); else the
\* entries are collected into a HashMap (a later entry of an address
\* replaces an earlier one) and every bytecode is hashed
try_from(value) ==
    IF value.kind # "object" THEN [tag |-> "err"]
    ELSE LET es == value.entries
             valid == {i \in DOMAIN es : EntryValid(es[i])}
             keys == {ParseAddress(es[i].key) : i \in valid}
             last(a) == CHOOSE i \in valid :
                           /\ ParseAddress(es[i].key) = a
                           /\ \A j \in valid :
                                 ParseAddress(es[j].key) = a => j <= i
             map == [a \in keys |-> es[last(a)].value.s[2]]
         IN IF valid # DOMAIN es THEN [tag |-> "err"]
            ELSE [tag |-> "ok", contracts |-> map,
                  code_hashes |-> [a \in keys |-> hash_slow(map[a])]]

\* the shadow.json the running node was constructed from
ShadowJson ==
    [kind |-> "object",
     entries |-> <<[key |-> Hex("a1"), value |-> [kind |-> "string", s |-> Hex("s1")]],
                   [key |-> Hex("a2"), value |-> [kind |-> "string", s |-> Hex("s2")]]>>]

\* ShadowExEx::new succeeded: the set every executor of the node uses
LoadedContracts == [config |-> ShadowJson, loaded |-> try_from(ShadowJson)]

(***************************************************************************)
(* ShadowExEx::exex (crates/exex/src/lib.rs): the notification loop.       *)
(***************************************************************************)
RECURSIVE ExecuteAll(_)
\* blocks.into_iter().map(execute_one).collect(): every block in order
ExecuteAll(chain) ==
    IF chain = <<>> THEN {<<>>}
    ELSE {<<e>> \o rest : e \in execute_one(Head(chain)),
                          rest \in ExecuteAll(Tail(chain))}

shadow_logs_unfiltered(executed_blocks) ==
    Flatten([b \in DOMAIN executed_blocks |-> logs(executed_blocks[b])])

\* .flat_map(|executed_block| executed_block.logs())
\* .filter(|log| self.contracts.is_shadowed(&log.address.parse()))
shadow_logs_of(executed_blocks) ==
    LET all == Flatten([b \in DOMAIN executed_blocks |-> logs(executed_blocks[b])])
        Keep(i) == is_shadowed(ParseAddress(all[i].address))
    IN SelectSeqIdx(all, {i \in DOMAIN all : Keep(i)}, 1)

fold_block_hashes_every_log(shadow_logs) ==
    [i \in DOMAIN shadow_logs |-> shadow_logs[i].block_hash]

RECURSIVE fold_block_hashes(_)
\* the fold of the persistence task: the block hash of each log, a hash
\* pushed only when it differs from the last one pushed
fold_block_hashes(shadow_logs) ==
    IF shadow_logs = <<>> THEN <<>>
    ELSE LET acc == fold_block_hashes(SubSeq(shadow_logs, 1, Len(shadow_logs) - 1))
             log == shadow_logs[Len(shadow_logs)]
         IN IF acc = <<>> \/ acc[Len(acc)] # log.block_hash
            THEN Append(acc, log.block_hash) ELSE acc

RECURSIVE SumLens(_)
SumLens(ts) ==
    IF ts = <<>> THEN 0
    ELSE (IF Head(ts).pc = "insert" THEN Len(Head(ts).shadow_logs) ELSE 0)
         + SumLens(Tail(ts))

\* rows in the table plus rows that pending tasks are going to insert
RowsInFlight == Len(store) + SumLens(tasks)

ChainHashes(chain) == [i \in DOMAIN chain |-> block_hash_slow(chain[i])]

Handled(kind, chain) == [kind |-> kind, blocks |-> ChainHashes(chain)]

FinishedHeight_first(chain) == [FinishedHeight |-> chain[1].number]

\* ExExEvent::FinishedHeight(chain.tip().number)
FinishedHeight(chain) == [FinishedHeight |-> chain[Len(chain)].number]

\* ExExNotification::ChainCommitted
ChainCommitted ==
    /\ exex = "running"
    /\ Len(handled) < MaxNotifications
    /\ \E chain \in Chains :
       \E executed_blocks \in ExecuteAll(chain) :
          LET shadow_logs == shadow_logs_of(executed_blocks) IN
          /\ RowsInFlight + Len(shadow_logs) <= MaxRows
          /\ tasks' = Append(tasks,
                 [kind |-> "commit", pc |-> "insert", ok |-> FALSE,
                  shadow_logs |-> shadow_logs,
                  block_hashes |-> fold_block_hashes(shadow_logs)])
          /\ events' = Append(events, FinishedHeight(chain))
          /\ handled' = Append(handled, Handled("ChainCommitted", chain))
    /\ UNCHANGED <<store, published, exex, rpc, provider, snapshot, dbRead,
                   evm, shadow>>

ChainCommittedProviderError_finishing ==
    /\ exex = "running"
    /\ Len(handled) < MaxNotifications
    /\ \E chain \in Chains :
          /\ handled' = Append(handled, Handled("ChainCommitted", chain))
          /\ events' = Append(events, FinishedHeight(chain))
    /\ exex' = "failed"
    /\ UNCHANGED <<store, tasks, published, rpc, provider, snapshot, dbRead,
                   evm, shadow>>

\* ChainCommitted when database_provider_ro() fails: `?` leaves the loop
ChainCommittedProviderError ==
    /\ exex = "running"
    /\ Len(handled) < MaxNotifications
    /\ \E chain \in Chains :
          handled' = Append(handled, Handled("ChainCommitted", chain))
    /\ exex' = "failed"
    /\ UNCHANGED <<store, tasks, published, events, rpc, provider, snapshot, dbRead,
                   evm, shadow>>

\* ChainCommitted with a chain of no blocks: blocks.first() is None and
\* ok_or_eyre("No blocks found in ExEx notification")? leaves the loop, if
\* chain.first() has not ended the handler before; either way nothing is
\* executed, no task is spawned and no event is sent
ChainCommittedNoBlocks ==
    /\ exex = "running"
    /\ Len(handled) < MaxNotifications
    /\ handled' = Append(handled, Handled("ChainCommitted", <<>>))
    /\ exex' = "failed"
    /\ UNCHANGED <<store, tasks, published, events, rpc, provider, snapshot, dbRead,
                   evm, shadow>>

ChainReverted_finishing ==
    /\ exex = "running"
    /\ Len(handled) < MaxNotifications
    /\ \E chain \in Chains :
          /\ tasks' = tasks \o
                 [i \in DOMAIN chain |->
                    [kind |-> "reorg", pc |-> "update", ok |-> FALSE,
                     shadow_logs |-> <<>>,
                     block_hashes |-> <<block_hash_slow(chain[i])>>]]
          /\ events' = Append(events, FinishedHeight(chain))
          /\ handled' = Append(handled, Handled("ChainReverted", chain))
    /\ UNCHANGED <<store, published, exex, rpc, provider, snapshot, dbRead,
                   evm, shadow>>

\* ExExNotification::ChainReverted: one detached task per block
ChainReverted ==
    /\ exex = "running"
    /\ Len(handled) < MaxNotifications
    /\ \E chain \in Chains :
          /\ tasks' = tasks \o
                 [i \in DOMAIN chain |->
                    [kind |-> "reorg", pc |-> "update", ok |-> FALSE,
                     shadow_logs |-> <<>>,
                     block_hashes |-> <<block_hash_slow(chain[i])>>]]
          /\ handled' = Append(handled, Handled("ChainReverted", chain))
    /\ UNCHANGED <<store, published, events, exex, rpc, provider, snapshot, dbRead,
                   evm, shadow>>

OtherNotification_finishing ==
    /\ exex = "running"
    /\ Len(handled) < MaxNotifications
    /\ handled' = Append(handled, Handled("ChainReorged", <<>>))
    /\ events' = Append(events, [FinishedHeight |-> 0])
    /\ UNCHANGED <<store, tasks, published, exex, rpc, provider,
                   snapshot, dbRead,
                   evm, shadow>>

\* any other notification (ChainReorged): `_ => {}`
OtherNotification ==
    /\ exex = "running"
    /\ Len(handled) < MaxNotifications
    /\ handled' = Append(handled, Handled("ChainReorged", <<>>))
    /\ UNCHANGED <<store, tasks, published, events, exex, rpc, provider,
                   snapshot, dbRead,
                   evm, shadow>>

\* ctx.notifications.recv() returns None: the loop ends with Ok(())
NotificationsClosed ==
    /\ exex = "running"
    /\ exex' = "done"
    /\ UNCHANGED <<store, tasks, published, events, handled, rpc, provider,
                   snapshot, dbRead,
                   evm, shadow>>

(***************************************************************************)
(* The detached tasks.  A task runs its store statement, then sends its    *)
(* block hashes on the broadcast one by one; tasks of different            *)
(* notifications interleave freely.                                        *)
(***************************************************************************)
RemoveAt(s, i) == SubSeq(s, 1, i - 1) \o SubSeq(s, i + 1, Len(s))

AfterStatement(i, ok) ==
    IF tasks[i].block_hashes = <<>> THEN RemoveAt(tasks, i)
    ELSE [tasks EXCEPT ![i].pc = "send", ![i].ok = ok]

PersistTaskInsert_propagating(i) ==
    /\ tasks[i].kind = "commit"
    /\ tasks[i].pc = "insert"
    /\ \E io \in BOOLEAN :
          /\ store' = bulk_insert_into_shadow_log_table(
                          store, tasks[i].shadow_logs, io)
          /\ tasks' = AfterStatement(i,
                          bulk_insert_ok(store, tasks[i].shadow_logs, io))
          /\ exex' = IF bulk_insert_ok(store, tasks[i].shadow_logs, io)
                     THEN exex ELSE "failed"
    /\ UNCHANGED <<published, events, handled, rpc, provider, snapshot, dbRead,
                   evm, shadow>>

\* let _ = sqlite_db.bulk_insert_into_shadow_log_table(shadow_logs).await
PersistTaskInsert(i) ==
    /\ tasks[i].kind = "commit"
    /\ tasks[i].pc = "insert"
    /\ \E io \in BOOLEAN :
          /\ store' = bulk_insert_into_shadow_log_table(
                          store, tasks[i].shadow_logs, io)
          /\ tasks' = AfterStatement(i,
                          bulk_insert_ok(store, tasks[i].shadow_logs, io))
    /\ UNCHANGED <<published, events, exex, handled, rpc, provider, snapshot, dbRead,
                   evm, shadow>>

\* let _ = sqlite_db.handle_block_reorg(block_hash).await
ReorgTaskUpdate(i) ==
    /\ tasks[i].kind = "reorg"
    /\ tasks[i].pc = "update"
    /\ \E io \in BOOLEAN :
          /\ store' = handle_block_reorg(store, tasks[i].block_hashes[1], io)
          /\ tasks' = AfterStatement(i, io)
    /\ UNCHANGED <<published, events, exex, handled, rpc, provider, snapshot, dbRead,
                   evm, shadow>>

\* let _ = indexed_block_hash_sender.send(block_hash)
TaskSend(i) ==
    /\ tasks[i].pc = "send"
    /\ published' = Append(published,
           IF tasks[i].kind = "reorg"
           THEN to_lower_hex(tasks[i].block_hashes[1])
           ELSE tasks[i].block_hashes[1])
    /\ tasks' = IF Len(tasks[i].block_hashes) = 1 THEN RemoveAt(tasks, i)
                ELSE [tasks EXCEPT ![i].block_hashes = Tail(@)]
    /\ UNCHANGED <<store, events, exex, handled, rpc, provider, snapshot, dbRead,
                   evm, shadow>>

Init ==
    /\ store = <<>>
    /\ tasks = <<>>
    /\ published = <<>>
    /\ events = <<>>
    /\ exex = "running"
    /\ handled = <<>>
    /\ rpc = [op |-> "none"]
    /\ provider = FullProvider
    /\ snapshot = NoSnapshot
    /\ dbRead = NoRead
    /\ evm = NoEvm
    /\ shadow = LoadedContracts

Next ==
    \/ ChainCommitted
    \/ ChainCommittedProviderError
    \/ ChainCommittedNoBlocks
    \/ ChainReverted
    \/ OtherNotification
    \/ NotificationsClosed
    \/ \E i \in DOMAIN tasks : PersistTaskInsert(i)
    \/ \E i \in DOMAIN tasks : ReorgTaskUpdate(i)
    \/ \E i \in DOMAIN tasks : TaskSend(i)

Spec == Init /\ [][Next]_vars

(***************************************************************************)
(* The RPC surface over a table the pipeline has filled.  The tables are   *)
(* produced by the pipeline's own operations: one commit of blocks 9 and   *)
(* 10 persisted, then possibly a revert of block 10.                       *)
(***************************************************************************)
PersistedTables ==
    {bulk_insert_into_shadow_log_table(<<>>, shadow_logs_of(e), TRUE) :
        e \in UNION {ExecuteAll(chain) : chain \in {c \in Chains : Len(c) = 2}}}

QueryTables ==
    PersistedTables \cup
    {handle_block_reorg(t, <<"keccak", 10, "x">>, TRUE) : t \in PersistedTables}

AddressParams ==
    {None,
     <<[kind |-> "String", v |-> <<Hex("a1")>>]>>,
     <<[kind |-> "String", v |-> <<Malformed>>]>>,
     <<[kind |-> "ArrayOfStrings",
        v |-> <<Hex("a1"), <<"0x", "a2", "upper">>>>]>>,
     <<[kind |-> "ArrayOfStrings", v |-> <<Hex("a3")>>]>>,
     <<[kind |-> "ArrayOfStrings", v |-> <<Hex("a2"), Malformed>>]>>,
     <<[kind |-> "Bytes", v |-> <<Hex("a2")>>]>>}

BlockHashParams == {None, Hex(<<"keccak", 9, "x">>), Hex(<<"keccak", 7, "x">>)}

FromBlockParams == {None, <<"tag", "earliest">>, <<"num", 9>>}

ToBlockParams == {None, <<"tag", "latest">>, <<"num", 5>>, <<"num", 9>>}

TopicParams ==
    {None, <<<<>>>>, <<<<Hex("t1")>>>>, <<<<Hex("t2")>>>>,
     <<<<Hex("t1"), Hex("t2")>>>>, <<<<<<"0x", "t2", "upper">>, Hex("t1")>>>>,
     <<<<Malformed>>>>,
     <<<<Hex("t1"), Hex("t2"), Hex("t1"), Hex("t2")>>>>,
     <<<<Hex("t1"), Hex("t2"), Hex("t1"), Hex("t2"), Hex("t1")>>>>}

GetLogsParameters ==
    [address : AddressParams, block_hash : BlockHashParams,
     from_block : FromBlockParams, to_block : ToBlockParams,
     topics : TopicParams]

SubscribeParameters == [address : AddressParams, topics : TopicParams]

\* the requests that reach the RPC surface
Requests ==
    {[op |-> "get_logs_request", params |-> params] :
        params \in GetLogsParameters}
    \cup
    {[op |-> "block_hash_received", params |-> params,
      block_hash |-> to_lower_hex(h)] :
        params \in SubscribeParameters, h \in BlockHashes}

\* shadow_getLogs
GetLogs ==
    /\ rpc.op = "get_logs_request"
    /\ rpc' = get_logs(provider, rpc.params, store)
    /\ UNCHANGED <<store, tasks, published, events, exex, handled, provider,
                   snapshot, dbRead,
                   evm, shadow>>

\* a subscription task receives an indexed block hash and queries the table
SubscriptionQuery ==
    /\ rpc.op = "block_hash_received"
    /\ rpc' = subscription_query(provider, rpc.params, rpc.block_hash, store)
    /\ UNCHANGED <<store, tasks, published, events, exex, handled, provider,
                   snapshot, dbRead,
                   evm, shadow>>

InitQuery ==
    /\ store \in QueryTables
    /\ provider \in {FullProvider, EmptyProvider}
    /\ rpc \in Requests
    /\ tasks = <<>>
    /\ published = <<>>
    /\ events = <<>>
    /\ exex = "running"
    /\ handled = <<>>
    /\ snapshot = NoSnapshot
    /\ dbRead = NoRead
    /\ evm = NoEvm
    /\ shadow = LoadedContracts

NextQuery == GetLogs \/ SubscriptionQuery

SpecQuery == InitQuery /\ [][NextQuery]_vars

(***************************************************************************)
(* The store used directly, as tests::test_shadow_get_logs does: a batch   *)
(* of ShadowLog values written by the caller is inserted with one call of  *)
(* bulk_insert_into_shadow_log_table and read back with get_logs.  The     *)
(* batch is held by the only task.                                         *)
(***************************************************************************)
StoreLogs ==
    [address : {Hex("a1"), <<"0x", "a1", "upper">>},
     block_hash : {Hex(<<"keccak", 9, "x">>)},
     block_log_index : {0, 12},
     block_number : {9},
     block_timestamp : {108, -1},
     transaction_index : {0, 167},
     transaction_hash : {Hex("x1")},
     transaction_log_index : {0},
     removed : BOOLEAN,
     data : {None, Hex("d1")},
     topic_0 : {None, Hex("t1")},
     topic_1 : {None, Hex("t2")},
     topic_2 : {None},
     topic_3 : {None}]

LastLog ==
    [address |-> Hex("a2"), block_hash |-> Hex(<<"keccak", 9, "x">>),
     block_log_index |-> 1, block_number |-> 9, block_timestamp |-> 108,
     transaction_index |-> 1, transaction_hash |-> Hex("x2"),
     transaction_log_index |-> 0, removed |-> FALSE, data |-> Hex("d2"),
     topic_0 |-> Hex("t1"), topic_1 |-> Hex("t2"), topic_2 |-> Hex("t1"),
     topic_3 |-> None]

Batches == {<<log>> : log \in StoreLogs} \cup {<<log, LastLog>> : log \in StoreLogs}

\* the filters of the read: the block by its hash, alone or with addresses
StoreFilters ==
    {[address |-> a, block_hash |-> Hex(<<"keccak", 9, "x">>),
      from_block |-> None, to_block |-> None, topics |-> None] :
        a \in {None, <<[kind |-> "ArrayOfStrings",
                        v |-> <<Hex("a1"), Hex("a2")>>]>>}}

\* rpc.sqlite_manager.bulk_insert_into_shadow_log_table(logs).await
BulkInsert ==
    /\ tasks[1].pc = "insert"
    /\ \E io \in BOOLEAN :
          /\ store' = bulk_insert_into_shadow_log_table(
                          store, tasks[1].shadow_logs, io)
          /\ tasks' = [tasks EXCEPT
                 ![1].pc = "done",
                 ![1].ok = bulk_insert_ok(store, tasks[1].shadow_logs, io)]
    /\ UNCHANGED <<published, events, exex, handled, rpc, provider, snapshot,
                   dbRead, evm, shadow>>

\* rpc.get_logs(params).await, after the insert
GetInsertedLogs ==
    /\ tasks[1].pc = "done"
    /\ rpc.op = "get_logs_request"
    /\ rpc' = get_logs(provider, rpc.params, store)
    /\ UNCHANGED <<store, tasks, published, events, exex, handled, provider,
                   snapshot, dbRead, evm, shadow>>

InitStore ==
    /\ store = <<>>
    /\ tasks \in {<<[kind |-> "commit", pc |-> "insert", ok |-> FALSE,
                      shadow_logs |-> batch, block_hashes |-> <<>>]>> :
                       batch \in Batches}
    /\ rpc \in {[op |-> "get_logs_request", params |-> params] :
                    params \in StoreFilters}
    /\ provider = FullProvider
    /\ published = <<>>
    /\ events = <<>>
    /\ exex = "running"
    /\ handled = <<>>
    /\ snapshot = NoSnapshot
    /\ dbRead = NoRead
    /\ evm = NoEvm
    /\ shadow = LoadedContracts

NextStore == BulkInsert \/ GetInsertedLogs

SpecStore == InitStore /\ [][NextStore]_vars

(***************************************************************************)
(* A live subscription next to the pipeline (crates/rpc/src/apis/          *)
(* subscribe.rs).  rpc holds the accepted subscription: its parameters,    *)
(* the position of its receiver in the broadcast, the messages pushed to   *)
(* its sink and whether its task is still running.  The backlog of the     *)
(* broadcast is fixed where the channel is created, outside these crates:  *)
(* a receiver with two or more unread hashes may read the oldest or be     *)
(* told it lagged and skip forward.                                        *)
(***************************************************************************)
SubscriptionParams ==
    {[address |-> None, topics |-> None],
     [address |-> <<[kind |-> "String", v |-> <<Hex("a1")>>]>>,
      topics |-> <<<<Hex("t1")>>>>]}

\* subscribe: the sink is accepted and the task is spawned with a receiver
\* that starts at the end of the broadcast
Subscription(params) ==
    [op |-> "subscription", params |-> params, next |-> 1, sink |-> <<>>,
     state |-> "accepted"]

\* handle_accepted, Ok(block_hash): validate, query, push every row; an
\* error of validation, of the query or of the sink ends the task
HandleAccepted ==
    /\ rpc.op = "subscription"
    /\ rpc.state = "accepted"
    /\ rpc.next <= Len(published)
    /\ LET out == subscription_query(provider, rpc.params,
                                     published[rpc.next], store)
       IN \E sink_open \in BOOLEAN :
             rpc' = IF out.resp.tag = "err"
                    THEN [rpc EXCEPT !.next = @ + 1, !.state = "ended"]
                    ELSE IF ~sink_open /\ out.resp.value # <<>>
                    THEN [rpc EXCEPT !.next = @ + 1, !.state = "ended"]
                    ELSE [rpc EXCEPT !.next = @ + 1,
                                     !.sink = @ \o out.resp.value]
    /\ UNCHANGED <<store, tasks, published, events, exex, handled, provider,
                   snapshot, dbRead,
                   evm, shadow>>

HandleLagged_ending ==
    /\ rpc.op = "subscription"
    /\ rpc.state = "accepted"
    /\ \E n \in (rpc.next + 1)..Len(published) :
          rpc' = [rpc EXCEPT !.next = n, !.state = "ended"]
    /\ UNCHANGED <<store, tasks, published, events, exex, handled, provider,
                   snapshot, dbRead,
                   evm, shadow>>

\* handle_accepted, Err(RecvError::Lagged(_)): warn and continue from a
\* later message
HandleLagged ==
    /\ rpc.op = "subscription"
    /\ rpc.state = "accepted"
    /\ \E n \in (rpc.next + 1)..Len(published) :
          rpc' = [rpc EXCEPT !.next = n]
    /\ UNCHANGED <<store, tasks, published, events, exex, handled, provider,
                   snapshot, dbRead,
                   evm, shadow>>

\* handle_accepted, Err(RecvError::Closed): every sender is dropped (the
\* loop has ended and no task holds a clone) and nothing is unread
HandleClosed ==
    /\ rpc.op = "subscription"
    /\ rpc.state = "accepted"
    /\ exex # "running"
    /\ tasks = <<>>
    /\ rpc.next > Len(published)
    /\ rpc' = [rpc EXCEPT !.state = "ended"]
    /\ UNCHANGED <<store, tasks, published, events, exex, handled, provider,
                   snapshot, dbRead,
                   evm, shadow>>

InitSubscribe ==
    /\ store = <<>>
    /\ tasks = <<>>
    /\ published = <<>>
    /\ events = <<>>
    /\ exex = "running"
    /\ handled = <<>>
    /\ rpc \in {Subscription(params) : params \in SubscriptionParams}
    /\ provider = FullProvider
    /\ snapshot = NoSnapshot
    /\ dbRead = NoRead
    /\ evm = NoEvm
    /\ shadow = LoadedContracts

NextSubscribe ==
    \/ Next
    \/ HandleAccepted
    \/ HandleLagged
    \/ HandleClosed

SpecSubscribe == InitSubscribe /\ [][NextSubscribe]_vars

(***************************************************************************)
(* A subscription that was accepted before the pipeline handled a commit   *)
(* of blocks 9 and 10, and possibly a revert of block 10, and whose task   *)
(* runs after the pipeline's tasks have finished: the store and the        *)
(* broadcast are what the pipeline left, and the handler is running or has *)
(* returned.  The parameters of a subscription are not validated before    *)
(* the first hash is received.                                             *)
(***************************************************************************)
ReceiverParams ==
    SubscriptionParams \cup
    {[address |-> <<[kind |-> "String", v |-> <<Malformed>>]>>, topics |-> None]}

PipelineRuns ==
    LET batches == {shadow_logs_of(e) :
                      e \in UNION {ExecuteAll(chain) :
                                     chain \in {c \in Chains : Len(c) = 2}}}
        committed == {[store |-> bulk_insert_into_shadow_log_table(<<>>, b, TRUE),
                       published |-> fold_block_hashes(b)] : b \in batches}
    IN committed \cup
       {[store |-> handle_block_reorg(r.store, <<"keccak", 10, "x">>, TRUE),
         published |-> Append(r.published, to_lower_hex(<<"keccak", 10, "x">>))] :
           r \in committed}

InitReceiver ==
    /\ \E run \in PipelineRuns :
          /\ store = run.store
          /\ published = run.published
    /\ rpc \in {Subscription(params) : params \in ReceiverParams}
    /\ exex \in {"running", "done"}
    /\ tasks = <<>>
    /\ events = <<>>
    /\ handled = <<>>
    /\ provider = FullProvider
    /\ snapshot = NoSnapshot
    /\ dbRead = NoRead
    /\ evm = NoEvm
    /\ shadow = LoadedContracts

NextReceiver == HandleAccepted \/ HandleLagged \/ HandleClosed

SpecReceiver == InitReceiver /\ [][NextReceiver]_vars

(***************************************************************************)
(* The executor on its own: one ShadowExecutor executes the blocks of a    *)
(* batch in order.  rpc holds the inputs (the batch and the transactions   *)
(* whose signer cannot be recovered), handled the ExecutedBlocks returned  *)
(* so far, evm the block environment and dbRead the state changes          *)
(* committed to the layered database.                                      *)
(***************************************************************************)
Transactions == UNION {Range(b.transactions) : b \in Blocks}

ExecuteOne ==
    /\ rpc.op = "execute"
    /\ Len(handled) < Len(rpc.chain)
    /\ LET block == rpc.chain[Len(handled) + 1]
       IN  \E executed_block \in execute_one(block) :
               /\ \A i \in DOMAIN executed_block.results :
                      executed_block.results[i].transaction \notin rpc.unrecoverable
               /\ handled' = Append(handled, executed_block)
               /\ evm' = configure_evm(block)
               /\ dbRead' = [op |-> "commit",
                             transactions |-> dbRead.transactions \o
                                 committed_transactions(executed_block)]
    /\ UNCHANGED <<store, tasks, published, events, exex, rpc, provider,
                   snapshot, shadow>>

InitExecute ==
    /\ store = <<>>
    /\ tasks = <<>>
    /\ published = <<>>
    /\ events = <<>>
    /\ exex = "running"
    /\ handled = <<>>
    /\ \E chain \in Chains, unrecoverable \in SUBSET Transactions :
           rpc = [op |-> "execute", chain |-> chain,
                  unrecoverable |-> unrecoverable]
    /\ provider = FullProvider
    /\ snapshot = NoSnapshot
    /\ dbRead = [op |-> "commit", transactions |-> <<>>]
    /\ evm = NoEvm
    /\ shadow = LoadedContracts

NextExecute == ExecuteOne

SpecExecute == InitExecute /\ [][NextExecute]_vars

(***************************************************************************)
(* The EVM reads an account through the adapter: Database::basic delegates *)
(* to DatabaseRef::basic_ref.                                              *)
(***************************************************************************)
Basic(address) ==
    /\ dbRead' = [op |-> "basic", address |-> address,
                  result |-> basic_ref(snapshot, address)]
    /\ UNCHANGED <<store, tasks, published, events, exex, handled, rpc,
                   provider, snapshot,
                   evm, shadow>>


InitAdapter ==
    /\ snapshot \in Snapshots
    /\ provider = FullProvider
    /\ dbRead = NoRead
    /\ evm = NoEvm
    /\ shadow = LoadedContracts
    /\ store = <<>>
    /\ tasks = <<>>
    /\ published = <<>>
    /\ events = <<>>
    /\ exex = "running"
    /\ handled = <<>>
    /\ rpc = [op |-> "none"]
    /\ provider = FullProvider

\* Database::block_hash delegates to DatabaseRef::block_hash_ref
BlockHashRead(number) ==
    /\ \E db_block_hash \in BlockHashAnswers :
          dbRead' = [op |-> "block_hash", number |-> number,
                     db |-> db_block_hash,
                     result |-> block_hash_ref(db_block_hash, number)]
    /\ UNCHANGED <<store, tasks, published, events, exex, handled, rpc,
                   provider, snapshot, evm, shadow>>

\* Database::code_by_hash delegates to DatabaseRef::code_by_hash_ref
CodeByHash(hash) ==
    /\ \E db_bytecode \in BytecodeAnswers :
          dbRead' = [op |-> "code_by_hash", hash |-> hash, db |-> db_bytecode,
                     result |-> code_by_hash_ref(db_bytecode, hash)]
    /\ UNCHANGED <<store, tasks, published, events, exex, handled, rpc,
                   provider, snapshot, evm, shadow>>

\* execute_one configures the EVM for the block before it runs the
\* transactions
ConfigureEvm(block) ==
    /\ evm' = configure_evm(block)
    /\ UNCHANGED <<store, tasks, published, events, exex, handled, rpc,
                   provider, snapshot, dbRead, shadow>>

NextAdapter ==
    \/ \E address \in Addresses : Basic(address)
    \/ \E number \in BlockNumbers : BlockHashRead(number)
    \/ \E hash \in CodeHashes : CodeByHash(hash)
    \/ \E block \in Blocks : ConfigureEvm(block)

SpecAdapter == InitAdapter /\ [][NextAdapter]_vars

(***************************************************************************)
(* ShadowExEx::new reads shadow.json and builds the Shadow Contract Set    *)
(* before the notification loop can start.                                 *)
(***************************************************************************)
New ==
    /\ exex = "constructing"
    /\ shadow' = [shadow EXCEPT !.loaded = try_from(shadow.config)]
    /\ exex' = IF try_from(shadow.config).tag = "ok" THEN "running"
               ELSE "failed"
    /\ UNCHANGED <<store, tasks, published, events, handled, rpc, provider,
                   snapshot, dbRead, evm>>

InitConfig ==
    /\ shadow \in {[config |-> c, loaded |-> [tag |-> "none"]] : c \in Configs}
    /\ exex = "constructing"
    /\ store = <<>>
    /\ tasks = <<>>
    /\ published = <<>>
    /\ events = <<>>
    /\ handled = <<>>
    /\ rpc = [op |-> "none"]
    /\ provider = FullProvider
    /\ snapshot = NoSnapshot
    /\ dbRead = NoRead
    /\ evm = NoEvm

NextConfig == New

SpecConfig == InitConfig /\ [][NextConfig]_vars

(***************************************************************************)
(* C1 as stated: whatever the snapshot holds at a shadowed address (an     *)
(* account of any balance, nonce and code hash, or no account), the read   *)
(* returns an account view with the shadow code hash and the shadow code.  *)
(***************************************************************************)
C1_ViewForEverySnapshotState ==
    (dbRead.op = "basic" /\ dbRead.address \in DOMAIN contracts
        /\ snapshot[dbRead.address].tag # "err")
    => /\ dbRead.result.tag = "some"
       /\ dbRead.result.code_hash = hash_slow(contracts[dbRead.address])
       /\ dbRead.result.code = <<contracts[dbRead.address]>>

(***************************************************************************)
(* C1 amended: a read of a shadowed address whose account exists in the    *)
(* snapshot returns a view with the shadow code hash and the shadow code,  *)
(* whatever the account's balance, nonce and original code hash; when the  *)
(* snapshot has no account there the read returns None (no view), and when *)
(* the snapshot read fails it returns that error.  No result carries the   *)
(* original code hash unless it is the shadow code hash.                   *)
(***************************************************************************)
C1_ShadowPrecedence ==
    (dbRead.op = "basic" /\ dbRead.address \in DOMAIN contracts)
    => LET a == dbRead.address
           account == snapshot[a]
           r == dbRead.result
       IN /\ account.tag = "some" =>
                /\ r.tag = "some"
                /\ r.code_hash = hash_slow(contracts[a])
                /\ r.code = <<contracts[a]>>
          /\ account.tag = "none" => r = [tag |-> "none"]
          /\ account.tag = "err" => r = [tag |-> "err"]

C1_Witness ==
    /\ dbRead.op = "basic"
    /\ dbRead.address \in DOMAIN contracts
    /\ snapshot[dbRead.address].tag = "some"
    /\ snapshot[dbRead.address].bytecode_hash = <<hash_slow("o1")>>
    /\ dbRead.result.tag = "some"
    /\ dbRead.result.code_hash = hash_slow(contracts[dbRead.address])
    /\ dbRead.result.code_hash # hash_slow("o1")

(***************************************************************************)
(* C2: a read of an address that is not shadowed and has an account in the *)
(* snapshot returns the snapshot's balance and nonce unchanged, the        *)
(* snapshot's bytecode hash as code_hash (KECCAK_EMPTY when the account    *)
(* has no code) and no inline code.                                        *)
(***************************************************************************)
C2_PassThrough ==
    (dbRead.op = "basic" /\ dbRead.address \notin DOMAIN contracts
        /\ snapshot[dbRead.address].tag = "some")
    => LET account == snapshot[dbRead.address]
           r == dbRead.result
       IN /\ r.tag = "some"
          /\ r.balance = account.balance
          /\ r.nonce = account.nonce
          /\ r.code_hash = IF account.bytecode_hash = None THEN KECCAK_EMPTY
                           ELSE account.bytecode_hash[1]
          /\ r.code = None

C2_Witness ==
    /\ dbRead.op = "basic"
    /\ dbRead.address \notin DOMAIN contracts
    /\ snapshot[dbRead.address].tag = "some"
    /\ snapshot[dbRead.address].nonce = 1
    /\ snapshot[dbRead.address].balance = 7
    /\ snapshot[dbRead.address].bytecode_hash = None
    /\ dbRead.result.tag = "some"
    /\ dbRead.result.code_hash = KECCAK_EMPTY

(***************************************************************************)
(* Claims about the notification handler and the Log Store (Spec).         *)
(***************************************************************************)
NotShadowed == Addresses \ DOMAIN contracts

AddressQuery(a, h) ==
    [address |-> <<[kind |-> "ArrayOfStrings", v |-> <<Hex(a)>>]>>,
     block_hash |-> Hex(h), from_block |-> None, to_block |-> None,
     topics |-> None]

(***************************************************************************)
(* C3: after any sequence of ChainCommitted and ChainReverted              *)
(* notifications every row of the Log Store has a shadowed address, and    *)
(* get_logs for an address that is not shadowed returns the empty list.    *)
(***************************************************************************)
C3_OnlyShadowedRows ==
    /\ \A i \in DOMAIN store : store[i].address \in DOMAIN contracts
    /\ \A a \in NotShadowed : \A h \in BlockHashes :
           get_logs(FullProvider, AddressQuery(a, h), store).resp = Ok(<<>>)

\* block 9 was persisted after its transaction x1 emitted a log of a3 (not
\* shadowed) and a log of a1: only the a1 log is a row
C3_Witness ==
    /\ \E i \in DOMAIN store :
          /\ store[i].transaction_hash = "x1"
          /\ store[i].address = "a1"
    /\ \E k \in DOMAIN handled : handled[k].kind = "ChainCommitted"

(***************************************************************************)
(* C4: when the invalidation task of a reverted block B runs its update on *)
(* a store that holds B's rows, every row with B's block hash has          *)
(* removed = true afterwards, no row is deleted, and a get_logs for B      *)
(* returns B's rows with removed = true; a row that is removed stays       *)
(* removed and stays in the store.                                         *)
(***************************************************************************)
ReorgUpdated(h) ==
    \E i \in DOMAIN tasks :
        /\ tasks[i].kind = "reorg"
        /\ tasks[i].pc = "update"
        /\ tasks[i].block_hashes = <<h>>
        /\ tasks' = [tasks EXCEPT ![i].pc = "send", ![i].ok = TRUE]

RowsOf(table, h) == {i \in DOMAIN table : table[i].block_hash = h}

AllOfBlock(h) ==
    [address |-> None, block_hash |-> Hex(h), from_block |-> None,
     to_block |-> None, topics |-> None]

C4_RevertMarksRemoved ==
    [][/\ \A h \in BlockHashes :
            ReorgUpdated(h) =>
              /\ Len(store') = Len(store)
              /\ \A i \in DOMAIN store :
                    store'[i] = [store[i] EXCEPT !.removed = store'[i].removed]
              /\ \A i \in RowsOf(store, h) :
                    /\ store'[i].removed
                    /\ LET resp == get_logs(FullProvider, AllOfBlock(h),
                                            store').resp
                       IN /\ resp.tag = "ok"
                          /\ \E k \in DOMAIN resp.value :
                                /\ resp.value[k] =
                                     RpcLogFrom(ShadowLogFromRow(store'[i]))
                                /\ resp.value[k].removed
       /\ \A i \in DOMAIN store :
            store[i].removed => i \in DOMAIN store' /\ store'[i].removed
      ]_vars

\* block 10 was committed and persisted, then reverted and invalidated
C4_Witness ==
    /\ \E i \in DOMAIN store :
          store[i].removed /\ store[i].block_hash = <<"keccak", 10, "x">>
    /\ \E j, k \in DOMAIN handled :
          /\ j < k
          /\ handled[j].kind = "ChainCommitted"
          /\ handled[k].kind = "ChainReverted"
          /\ <<"keccak", 10, "x">> \in Range(handled[j].blocks)
          /\ <<"keccak", 10, "x">> \in Range(handled[k].blocks)

(***************************************************************************)
(* C5: every shadow log is created with removed = false; a row has         *)
(* removed = true only if a ChainReverted notification containing a block  *)
(* with the row's block hash was received earlier; handling a              *)
(* ChainCommitted, and the insert of its persistence task, set removed to  *)
(* true on no row.                                                         *)
(***************************************************************************)
RevertedHashes ==
    UNION {Range(handled[k].blocks) :
              k \in {j \in DOMAIN handled : handled[j].kind = "ChainReverted"}}

C5_RemovedOnlyByRevert ==
    /\ [](/\ \A t \in DOMAIN tasks : \A j \in DOMAIN tasks[t].shadow_logs :
               ~tasks[t].shadow_logs[j].removed
          /\ \A i \in DOMAIN store :
               store[i].removed => store[i].block_hash \in RevertedHashes)
    /\ [][/\ \A i \in DOMAIN store' :
               (i \notin DOMAIN store \/ ~store[i].removed) /\ store'[i].removed
               => \E t \in DOMAIN tasks :
                     /\ tasks[t].kind = "reorg"
                     /\ tasks[t].pc = "update"
                     /\ tasks[t].block_hashes = <<store'[i].block_hash>>
                     /\ tasks' = [tasks EXCEPT ![t].pc = "send",
                                               ![t].ok = TRUE]
         ]_vars

\* a revert of block 10 was received while the rows of block 9, created
\* with removed = false, stay as they were
C5_Witness ==
    /\ \E i, j \in DOMAIN store :
          /\ store[i].removed
          /\ store[i].block_hash \in RevertedHashes
          /\ ~store[j].removed
          /\ store[j].block_hash \notin RevertedHashes

(***************************************************************************)
(* C6: handle_block_reorg is idempotent and local: on every store the      *)
(* pipeline reaches and for every block hash h, applying it twice gives    *)
(* the store that applying it once gives; in that store a row is removed   *)
(* exactly when its block hash is h or it was removed before; every other  *)
(* field of every row, and every row of another block hash, is unchanged.  *)
(***************************************************************************)
C6_RevertIdempotentLocal ==
    \A h \in BlockHashes \cup {<<"keccak", 7, "x">>} :
        LET once == handle_block_reorg(store, h, TRUE)
            twice == handle_block_reorg(once, h, TRUE)
        IN /\ twice = once
           /\ DOMAIN once = DOMAIN store
           /\ \A i \in DOMAIN store :
                 /\ once[i].removed <=>
                       (store[i].block_hash = h \/ store[i].removed)
                 /\ once[i] = [store[i] EXCEPT !.removed = once[i].removed]
                 /\ store[i].block_hash # h => once[i] = store[i]

\* the store holds rows of two blocks, of which one has been invalidated
C6_Witness ==
    \E i, j \in DOMAIN store :
        /\ store[i].block_hash # store[j].block_hash
        /\ store[i].removed
        /\ ~store[j].removed
        /\ \E t \in DOMAIN tasks : tasks[t].kind = "reorg"

(***************************************************************************)
(* Claims about the query surface (SpecQuery).                             *)
(***************************************************************************)
Answered == rpc.op \in {"get_logs", "subscribe"}

CountIn(x, s) == Cardinality({i \in DOMAIN s : s[i] = x})

(***************************************************************************)
(* C7: the rows a query returns are rows of the store and every returned   *)
(* row satisfies every clause of the validated filter: its address is one  *)
(* of the filter's addresses (when it has any), its block number lies in   *)
(* the filter's range or its block hash is the filter's hash, and at every *)
(* position where the filter has a topic the row has that topic.           *)
(***************************************************************************)
C7_RowsSatisfyFilter ==
    (Answered /\ rpc.resp.tag = "ok") =>
        LET f == rpc.validated.value IN
        \A n \in DOMAIN rpc.resp.value :
            LET r == rpc.resp.value[n] IN
            /\ \E i \in DOMAIN store : r = RpcLogFrom(ShadowLogFromRow(store[i]))
            /\ f.addresses # <<>> =>
                  \E j \in DOMAIN f.addresses :
                      ParseAddress(r.address) = ParseAddress(f.addresses[j])
            /\ f.block_id.tag = "BlockRange" =>
                  /\ f.block_id.from <= r.block_number[2]
                  /\ r.block_number[2] <= f.block_id.to
            /\ f.block_id.tag = "BlockHash" =>
                  r.block_hash[2] = f.block_id.block_hash[2]
            /\ \A k \in 0..3 :
                  f.topics[k] # None =>
                      /\ r.topics[k + 1] # None
                      /\ r.topics[k + 1][2] = f.topics[k][2]

(***************************************************************************)
(* C8: filters are monotone: for the filter of an answered query, dropping *)
(* the address list or dropping the topic at one position gives a query    *)
(* that succeeds and returns every row the original query returned (each   *)
(* at least as often).                                                     *)
(***************************************************************************)
Weakened(f) ==
    {[f EXCEPT !.addresses = <<>>]} \cup
    {[f EXCEPT !.topics[k] = None] : k \in 0..3}

C8_FilterMonotone ==
    (Answered /\ rpc.resp.tag = "ok") =>
        \A g \in Weakened(rpc.validated.value) :
            LET weaker == exec_query(g, store) IN
            /\ weaker.tag = "ok"
            /\ LET rows == [i \in DOMAIN weaker.value |->
                              RpcLogFrom(weaker.value[i])]
               IN \A n \in DOMAIN rpc.resp.value :
                     CountIn(rpc.resp.value[n], rpc.resp.value)
                        <= CountIn(rpc.resp.value[n], rows)

\* a filter with an address list and a topic returned a row, and without
\* the address list it returns more rows
C8_Witness ==
    /\ Answered
    /\ rpc.resp.tag = "ok"
    /\ rpc.resp.value # <<>>
    /\ rpc.validated.value.addresses # <<>>
    /\ rpc.validated.value.topics[0] # None
    /\ LET weaker == exec_query([rpc.validated.value EXCEPT !.addresses = <<>>],
                                store)
       IN Len(weaker.value) > Len(rpc.resp.value)

(***************************************************************************)
(* C9: get_logs with an address list A and a block range [from, to] (no    *)
(* topics) returns every stored row whose address is in A and whose block  *)
(* number is within the range, each exactly as often as it is stored;      *)
(* addresses of A without a row contribute nothing and cause no error.     *)
(***************************************************************************)
C9_GetLogsComplete ==
    (/\ rpc.op = "get_logs"
     /\ rpc.validated.tag = "ok"
     /\ rpc.validated.value.addresses # <<>>
     /\ rpc.validated.value.block_id.tag = "BlockRange"
     /\ rpc.params.topics = None) =>
        LET f == rpc.validated.value
            InRange(i) ==
                /\ \E j \in DOMAIN f.addresses :
                      store[i].address = ParseAddress(f.addresses[j])
                /\ f.block_id.from <= FromText(store[i].block_number)
                /\ FromText(store[i].block_number) <= f.block_id.to
            expected == SelectSeqIdx(
                [i \in DOMAIN store |-> RpcLogFrom(ShadowLogFromRow(store[i]))],
                {i \in DOMAIN store : InRange(i)}, 1)
        IN /\ rpc.resp.tag = "ok"
           /\ Len(rpc.resp.value) = Len(expected)
           /\ \A n \in DOMAIN expected :
                 CountIn(expected[n], rpc.resp.value)
                    = CountIn(expected[n], expected)

(***************************************************************************)
(* C10 as stated: a get_logs request with blockHash together with          *)
(* fromBlock or toBlock fails with error code -32001 whatever the address  *)
(* and topics parameters are, and runs no query.                           *)
(***************************************************************************)
Conflicting ==
    /\ rpc.op = "get_logs"
    /\ rpc.params.block_hash # None
    /\ (rpc.params.from_block # None \/ rpc.params.to_block # None)

C10_ConflictAlways32001 ==
    Conflicting => (rpc.resp = Err(CONFLICT_ERROR_CODE) /\ ~rpc.queried)

(***************************************************************************)
(* C10 amended: a get_logs request with blockHash together with fromBlock  *)
(* or toBlock always fails and runs no query; the error code is -32001     *)
(* whatever the topics are, provided the address parameter is absent or    *)
(* parses; when an address does not parse the request fails with the       *)
(* internal error code of address validation, which runs first.            *)
(***************************************************************************)
AddressStrings(address) ==
    IF address = None \/ address[1].kind = "Bytes" THEN <<>> ELSE address[1].v

C10_ConflictRejected ==
    Conflicting =>
        /\ rpc.resp.tag = "err"
        /\ ~rpc.queried
        /\ LET strings == AddressStrings(rpc.params.address) IN
           rpc.resp.code =
              IF \A i \in DOMAIN strings : ParsesAsAddress(strings[i])
              THEN CONFLICT_ERROR_CODE ELSE INTERNAL_ERROR_CODE

\* blockHash with fromBlock, an address list and five topics: -32001
C10_Witness ==
    /\ Conflicting
    /\ rpc.params.from_block # None
    /\ rpc.params.address # None
    /\ rpc.params.topics # None
    /\ Len(rpc.params.topics[1]) > MaxTopics
    /\ rpc.resp = Err(CONFLICT_ERROR_CODE)

(***************************************************************************)
(* C11 as stated: a topics list of more than four elements produces the    *)
(* arity error 32002 on the get_logs and on the subscribe path, whatever   *)
(* the other parameters are.                                               *)
(***************************************************************************)
TooManyTopics ==
    /\ Answered
    /\ rpc.params.topics # None
    /\ Len(rpc.params.topics[1]) > MaxTopics

C11_ArityAlways32002 ==
    TooManyTopics => rpc.resp = Err(TOPICS_ERROR_CODE)

(***************************************************************************)
(* C11 amended: a topics list of more than four elements always fails the  *)
(* request, on both paths, and no query runs; the error is the arity error *)
(* 32002 unless a validation that runs before the topics fails (the        *)
(* addresses on both paths, and the block selection on the get_logs path), *)
(* whose error is then returned.  A list of n <= 4 elements passes topic   *)
(* validation: when the other parameters validate, the filter binds the    *)
(* i-th element to topic position i and leaves positions n..3 without a    *)
(* topic.                                                                  *)
(***************************************************************************)
EarlierValidation ==
    LET addresses == validate_addresses(rpc.params.address)
        block_id == validate_block_id(provider, rpc.params.block_hash,
                        rpc.params.from_block, rpc.params.to_block, TRUE)
    IN IF addresses.tag = "err" THEN addresses
       ELSE IF rpc.op = "get_logs" /\ block_id.tag = "err" THEN block_id
       ELSE Ok(<<>>)

C11_TopicArity ==
    Answered =>
        LET n == IF rpc.params.topics = None THEN 0
                 ELSE Len(rpc.params.topics[1])
        IN /\ n > MaxTopics =>
                 /\ rpc.resp.tag = "err"
                 /\ ~rpc.queried
                 /\ rpc.resp = IF EarlierValidation.tag = "err"
                               THEN EarlierValidation
                               ELSE Err(TOPICS_ERROR_CODE)
           /\ (n <= MaxTopics /\ EarlierValidation.tag = "ok") =>
                 /\ rpc.validated.tag = "ok"
                 /\ \A k \in 0..3 :
                       rpc.validated.value.topics[k] =
                          IF k < n THEN rpc.params.topics[1][k + 1] ELSE None

\* five topics on the subscribe path, with an address that parses, are
\* rejected with 32002 before any query runs
C11_Witness ==
    /\ TooManyTopics
    /\ rpc.op = "subscribe"
    /\ rpc.params.address # None
    /\ rpc.resp = Err(TOPICS_ERROR_CODE)
    /\ ~rpc.queried

(***************************************************************************)
(* C12: on a get_logs request without blockHash whose addresses and topics *)
(* validate, the block selection is the range [from, to]: a missing        *)
(* fromBlock and a missing toBlock are each the number of the provider's   *)
(* latest block, a tag is the number of the provider's block for that tag, *)
(* a numeric quantity is used as given; with neither end the range is      *)
(* [latest, latest].  The request fails with the block error -1 exactly    *)
(* when the provider has no block for a tag that has to be looked up.      *)
(***************************************************************************)
TagOf(s) == IF s = None THEN <<"latest">>
            ELSE IF s[1] = "tag" THEN <<s[2]>> ELSE <<>>

EndOf(s) == IF TagOf(s) = <<>> THEN s[2] ELSE provider.tags[TagOf(s)[1]][1]

RangeRequest ==
    /\ rpc.op = "get_logs"
    /\ rpc.params.block_hash = None
    /\ validate_addresses(rpc.params.address).tag = "ok"
    /\ validate_topics(rpc.params.topics).tag = "ok"

C12_RangeDefaultsToLatest ==
    RangeRequest =>
        LET from == rpc.params.from_block
            to == rpc.params.to_block
            known == \A t \in Range(TagOf(from)) \cup Range(TagOf(to)) :
                        provider.tags[t] # None
        IN IF known
           THEN /\ rpc.validated.tag = "ok"
                /\ rpc.validated.value.block_id =
                      BlockRange(EndOf(from), EndOf(to))
                /\ (from = None /\ to = None) =>
                      rpc.validated.value.block_id =
                         BlockRange(provider.tags["latest"][1],
                                    provider.tags["latest"][1])
           ELSE rpc.validated = Err(BLOCK_ID_ERROR_CODE)

\* fromBlock = earliest and no toBlock: the range [0, 10] of a provider
\* whose earliest block is 0 and whose latest block is 10
C12_Witness ==
    /\ RangeRequest
    /\ rpc.params.from_block = <<"tag", "earliest">>
    /\ rpc.params.to_block = None
    /\ rpc.validated.tag = "ok"
    /\ rpc.validated.value.block_id = BlockRange(0, 10)

(***************************************************************************)
(* C13: a blockHash given alone (addresses and topics valid) is handled by *)
(* path.  On the get_logs path it is looked up in the block provider: the  *)
(* filter is the range [n, n] of that block's number, and the request      *)
(* fails with the block error when the provider has no such block.  On     *)
(* the subscribe path the received hash is kept as a block_hash equality   *)
(* filter and the provider is not consulted: the filter is produced even   *)
(* when the provider does not know the hash.                               *)
(***************************************************************************)
HashAlone ==
    /\ Answered
    /\ validate_addresses(rpc.params.address).tag = "ok"
    /\ validate_topics(rpc.params.topics).tag = "ok"
    /\ rpc.op = "get_logs" =>
          /\ rpc.params.block_hash # None
          /\ rpc.params.from_block = None
          /\ rpc.params.to_block = None

C13_BlockHashByPath ==
    HashAlone =>
        IF rpc.op = "get_logs"
        THEN LET h == rpc.params.block_hash[2] IN
             IF h \in DOMAIN provider.hashes /\ provider.hashes[h] # None
             THEN /\ rpc.validated.tag = "ok"
                  /\ rpc.validated.value.block_id =
                        BlockRange(provider.hashes[h][1], provider.hashes[h][1])
             ELSE rpc.validated = Err(BLOCK_ID_ERROR_CODE)
        ELSE /\ rpc.validated.tag = "ok"
             /\ rpc.validated.value.block_id = BlockHash(rpc.block_hash)
             /\ rpc.queried

\* a subscription received a hash that the provider does not know and
\* queried the store with it
C13_Witness ==
    /\ HashAlone
    /\ rpc.op = "subscribe"
    /\ block_by_hash(provider, rpc.block_hash[2]) = None
    /\ rpc.validated.tag = "ok"
    /\ rpc.validated.value.block_id.tag = "BlockHash"
    /\ rpc.queried

(***************************************************************************)
(* C14: address validation accepts an absent address (the filter has no    *)
(* address constraint), a single hex string, a raw 20-byte value and an    *)
(* array of hex strings; when every element parses, the filter's address   *)
(* list has one canonical address string per element, in input order;      *)
(* when an element does not parse the request fails with the validation    *)
(* error of address parsing, no filter is produced and no query runs.      *)
(***************************************************************************)
AddressElements(address) ==
    IF address = None THEN <<>> ELSE address[1].v

C14_AddressValidation ==
    Answered =>
        LET elements == AddressElements(rpc.params.address)
            canonical == [i \in DOMAIN elements |->
                            AddressToString(ParseAddress(elements[i]))]
        IN IF \A i \in DOMAIN elements : ParsesAsAddress(elements[i])
           THEN /\ validate_addresses(rpc.params.address) = Ok(canonical)
                /\ rpc.validated.tag = "ok" =>
                      rpc.validated.value.addresses = canonical
           ELSE /\ rpc.validated = Err(INTERNAL_ERROR_CODE)
                /\ rpc.resp = Err(INTERNAL_ERROR_CODE)
                /\ ~rpc.queried

\* an array of two hex strings, the second in upper case, became a filter
\* with the two canonical strings in the order given
C14_Witness ==
    /\ Answered
    /\ rpc.params.address # None
    /\ rpc.params.address[1].kind = "ArrayOfStrings"
    /\ Len(rpc.params.address[1].v) = 2
    /\ rpc.params.address[1].v[2][3] = "upper"
    /\ rpc.validated.tag = "ok"
    /\ rpc.validated.value.addresses =
          <<AddressToString("a1"), AddressToString("a2")>>

(***************************************************************************)
(* C15: for a block hash h that an accepted subscription with well-formed  *)
(* address and topic predicates receives from the broadcast, the rows      *)
(* pushed to the subscriber are exactly the stored rows whose block hash   *)
(* is h and that match the subscriber's addresses and topics (each once    *)
(* per stored copy, in store order); no row of another block is pushed,    *)
(* although the store holds rows of other blocks.                          *)
(***************************************************************************)
TopicElements(topics) == IF topics = None THEN <<>> ELSE topics[1]

SubscriberMatch(params, h, row) ==
    /\ row.block_hash = h
    /\ \/ AddressElements(params.address) = <<>>
       \/ \E j \in DOMAIN AddressElements(params.address) :
             row.address = ParseAddress(AddressElements(params.address)[j])
    /\ \A k \in DOMAIN TopicElements(params.topics) :
          RowTopic(row, k - 1) = TopicElements(params.topics)[k][2]

C15_SubscriberGetsBlockRows ==
    (/\ rpc.op = "subscribe"
     /\ rpc.validated.tag = "ok"
     /\ LiteralsWellFormed(rpc.validated.value)) =>
        LET h == rpc.block_hash[2]
            expected == SelectSeqIdx(
                [i \in DOMAIN store |-> RpcLogFrom(ShadowLogFromRow(store[i]))],
                {i \in DOMAIN store : SubscriberMatch(rpc.params, h, store[i])},
                1)
        IN /\ rpc.resp = Ok(expected)
           /\ \A n \in DOMAIN rpc.resp.value :
                 rpc.resp.value[n].block_hash = HexEncode0x(h)

\* a subscriber with an address and a topic received the hash of one block
\* and was sent its matching row, while a row of another block that also
\* matches its address and topic stayed unsent
C15_Witness ==
    /\ rpc.op = "subscribe"
    /\ rpc.params.address # None
    /\ rpc.params.topics # None
    /\ rpc.resp.tag = "ok"
    /\ rpc.resp.value # <<>>
    /\ \E i \in DOMAIN store :
          /\ store[i].block_hash # rpc.block_hash[2]
          /\ SubscriberMatch(rpc.params, store[i].block_hash, store[i])

(***************************************************************************)
(* Claims about a live subscription next to the pipeline (SpecSubscribe).  *)
(***************************************************************************)
CommitPositions(h) ==
    {<<k, a>> \in (DOMAIN handled) \X (1..Cardinality(Blocks)) :
        /\ handled[k].kind = "ChainCommitted"
        /\ a \in DOMAIN handled[k].blocks
        /\ handled[k].blocks[a] = h}

\* b1 was committed before b2: earlier in the same batch or in an earlier
\* notification (neither block was reverted)
CommittedBefore(b1, b2) ==
    /\ b1 # b2
    /\ CommitPositions(b1) # {}
    /\ CommitPositions(b2) # {}
    /\ {b1, b2} \cap RevertedHashes = {}
    /\ \A x \in CommitPositions(b1), y \in CommitPositions(b2) :
          x[1] < y[1] \/ (x[1] = y[1] /\ x[2] < y[2])

(***************************************************************************)
(* C16: a subscriber receives logs in commit order: when block b1 was      *)
(* committed before block b2, no log of b2 is pushed to the subscriber     *)
(* before a log of b1, however the persistence tasks interleave.           *)
(***************************************************************************)
C16_SubscriberCommitOrder ==
    rpc.op = "subscription" =>
        \A p, q \in DOMAIN rpc.sink :
            p < q => ~CommittedBefore(rpc.sink[q].block_hash[2],
                                      rpc.sink[p].block_hash[2])

(***************************************************************************)
(* C17: for every ChainCommitted notification handled without error the    *)
(* handler sends exactly one FinishedHeight, carrying the number of the    *)
(* chain's tip block; it is sent in the step that has re-executed every    *)
(* block of the batch and scheduled the persistence task, and no insert    *)
(* has to happen before it: the task is still before its insert and the    *)
(* store is as it was.  No other step sends an event.                      *)
(***************************************************************************)
CommitsHandledOk ==
    SelectSeqIdx(handled,
        {k \in DOMAIN handled :
            /\ handled[k].kind = "ChainCommitted"
            /\ ~(exex = "failed" /\ k = Len(handled))}, 1)

ChainOfHashes(hashes) ==
    [i \in DOMAIN hashes |->
        CHOOSE block \in Blocks : block_hash_slow(block) = hashes[i]]

TipNumber(hashes) == ChainOfHashes(hashes)[Len(hashes)].number

C17_FinishedHeightPerCommit ==
    /\ [](/\ Len(events) = Len(CommitsHandledOk)
          /\ \A k \in DOMAIN events :
                events[k] =
                   [FinishedHeight |-> TipNumber(CommitsHandledOk[k].blocks)])
    /\ [][/\ (/\ handled' # handled
              /\ handled'[Len(handled')].kind = "ChainCommitted"
              /\ exex' = "running") =>
                LET chain == ChainOfHashes(handled'[Len(handled')].blocks) IN
                /\ events' = Append(events,
                       [FinishedHeight |-> chain[Len(chain)].number])
                /\ Len(tasks') = Len(tasks) + 1
                /\ tasks'[Len(tasks')].kind = "commit"
                /\ tasks'[Len(tasks')].pc = "insert"
                /\ tasks'[Len(tasks')].shadow_logs \in
                      {shadow_logs_of(e) : e \in ExecuteAll(chain)}
                /\ store' = store
          /\ handled' = handled => events' = events
         ]_vars

\* the batch of blocks 9 and 10 was acknowledged with height 10 while its
\* persistence task, which has logs to insert, has inserted nothing
C17_Witness ==
    /\ events = <<[FinishedHeight |-> 10]>>
    /\ Len(handled) = 1
    /\ Len(handled[1].blocks) = 2
    /\ store = <<>>
    /\ Len(tasks) = 1
    /\ tasks[1].pc = "insert"
    /\ tasks[1].shadow_logs # <<>>

(***************************************************************************)
(* Claims about the logs synthesized for a block (Spec): the shadow logs   *)
(* a ChainCommitted hands to its persistence task.                         *)
(***************************************************************************)
BlockOfLog(log) ==
    CHOOSE block \in Blocks :
        to_lower_hex(block_hash_slow(block)) = log.block_hash

\* the position of the log's transaction in its block
CanonicalIndex(log) ==
    CHOOSE i \in DOMAIN BlockOfLog(log).transactions :
        to_lower_hex(BlockOfLog(log).transactions[i]) = log.transaction_hash

CommitTasks == {t \in DOMAIN tasks : tasks[t].kind = "commit"}

(***************************************************************************)
(* C18: within a block the shadow logs follow the canonical transaction    *)
(* order of the block, and within a transaction the EVM emit order: a log  *)
(* of a transaction that is later in the block never precedes a log of an  *)
(* earlier transaction.                                                    *)
(***************************************************************************)
C18_CanonicalLogOrder ==
    \A t \in CommitTasks :
        LET ls == tasks[t].shadow_logs IN
        \A p, q \in DOMAIN ls :
            (p < q /\ ls[p].block_hash = ls[q].block_hash) =>
                /\ CanonicalIndex(ls[p]) <= CanonicalIndex(ls[q])
                /\ CanonicalIndex(ls[p]) = CanonicalIndex(ls[q]) =>
                      ls[p].transaction_log_index < ls[q].transaction_log_index

(***************************************************************************)
(* C19: along the log sequence of a block, block_log_index is strictly     *)
(* increasing (no two logs of the block share one), and within a           *)
(* transaction transaction_log_index increases; this holds for the logs    *)
(* that are persisted after the logs of non-shadowed contracts are         *)
(* filtered out.                                                           *)
(***************************************************************************)
C19_BlockLogIndexIncreasing ==
    \A t \in CommitTasks :
        LET ls == tasks[t].shadow_logs IN
        \A p, q \in DOMAIN ls :
            (p < q /\ ls[p].block_hash = ls[q].block_hash) =>
                /\ ls[p].block_log_index < ls[q].block_log_index
                /\ ls[p].transaction_hash = ls[q].transaction_hash =>
                      ls[p].transaction_log_index < ls[q].transaction_log_index

(***************************************************************************)
(* C20: every shadow log synthesized for a block carries as block_hash the *)
(* hash of the block's header as the host delivered it; all logs of one    *)
(* block carry the same hash; and it is the hash a later ChainReverted of  *)
(* the block uses: when the invalidation task of the block runs its        *)
(* update, every stored row synthesized from that block is marked removed. *)
(***************************************************************************)
DeliveredBlock(log) ==
    CHOOSE block \in Blocks :
        \E i \in DOMAIN block.transactions :
            to_lower_hex(block.transactions[i]) = log.transaction_hash

RowBlock(row) ==
    CHOOSE block \in Blocks : row.transaction_hash \in Range(block.transactions)

C20_CanonicalHash ==
    /\ [](/\ \A t \in CommitTasks :
               \A p \in DOMAIN tasks[t].shadow_logs :
                  LET log == tasks[t].shadow_logs[p] IN
                  /\ log.block_hash =
                        to_lower_hex(block_hash_slow(DeliveredBlock(log)))
                  /\ log.block_number = DeliveredBlock(log).number
                  /\ \A q \in DOMAIN tasks[t].shadow_logs :
                        tasks[t].shadow_logs[q].block_number = log.block_number
                        => tasks[t].shadow_logs[q].block_hash = log.block_hash
          /\ \A i \in DOMAIN store :
               store[i].block_hash = block_hash_slow(RowBlock(store[i])))
    /\ [][\A block \in Blocks :
              ReorgUpdated(block_hash_slow(block)) =>
                 \A i \in DOMAIN store :
                    RowBlock(store[i]) = block => store'[i].removed
         ]_vars

\* the rows of the two transactions of block 9 carry the hash of block 9
\* and were all marked removed by the revert of block 9
C20_Witness ==
    /\ \E i, j \in DOMAIN store :
          /\ store[i].transaction_hash = "x1"
          /\ store[j].transaction_hash = "x2"
    /\ \A i \in DOMAIN store :
          /\ store[i].block_hash = <<"keccak", 9, "x">>
          /\ store[i].removed
    /\ <<"keccak", 9, "x">> \in RevertedHashes

(***************************************************************************)
(* C21 as stated: whenever the executor's EVM has been configured for a    *)
(* block, its block environment carries a base fee of zero, whatever the   *)
(* base fee of the block's header.                                         *)
(***************************************************************************)
C21_BaseFeeZero == evm.basefee = 0

(***************************************************************************)
(* C22: block_hash(number) fails with BlockNumberOverflow exactly when     *)
(* number has more than 64 bits, and then the snapshot is not read; for a  *)
(* number below 2^64 the snapshot is read and the result is its hash for   *)
(* the block, the zero hash when it has none (a failure of the snapshot's  *)
(* read is passed on).                                                     *)
(***************************************************************************)
FitsU64(number) == Len(number) <= 16

C22_BlockHashOverflow ==
    dbRead.op = "block_hash" =>
        LET r == dbRead.result IN
        /\ (r.tag = "err" /\ r.error = "BlockNumberOverflow")
              <=> ~FitsU64(dbRead.number)
        /\ ~FitsU64(dbRead.number) => ~r.consulted
        /\ FitsU64(dbRead.number) =>
              /\ r.consulted
              /\ dbRead.db.tag = "some" =>
                    r.tag = "ok" /\ r.value = dbRead.db.hash
              /\ dbRead.db.tag = "none" =>
                    r.tag = "ok" /\ r.value = ZERO_HASH
              /\ dbRead.db.tag = "err" => r.tag = "err"

\* block_hash(2^64), with a snapshot that would have answered, fails with
\* BlockNumberOverflow and the snapshot was not read
C22_Witness ==
    /\ dbRead.op = "block_hash"
    /\ dbRead.number = <<1>> \o [i \in 1..16 |-> 0]
    /\ dbRead.db.tag = "some"
    /\ dbRead.result.tag = "err"
    /\ dbRead.result.error = "BlockNumberOverflow"
    /\ ~dbRead.result.consulted

(***************************************************************************)
(* C23: code_by_hash(hash) never fails; it returns the shadow bytecode of  *)
(* a shadowed address whose code hash is hash, whatever the snapshot holds *)
(* for that hash, and otherwise the snapshot's code for the hash, or empty *)
(* code when the snapshot has none or cannot be read.                      *)
(***************************************************************************)
ShadowedWithHash(hash) ==
    {a \in DOMAIN contracts : hash_slow(contracts[a]) = hash}

C23_CodeByHash ==
    dbRead.op = "code_by_hash" =>
        /\ dbRead.result.tag = "ok"
        /\ ShadowedWithHash(dbRead.hash) # {} =>
              \E a \in ShadowedWithHash(dbRead.hash) :
                 dbRead.result.value = contracts[a]
        /\ ShadowedWithHash(dbRead.hash) = {} =>
              dbRead.result.value =
                 IF dbRead.db.tag = "some" THEN dbRead.db.code ELSE ""

\* the hash of a1's shadow bytecode is looked up while the snapshot holds
\* other code under it: the shadow bytecode is returned
C23_Witness ==
    /\ dbRead.op = "code_by_hash"
    /\ dbRead.hash = <<"keccak", "s1">>
    /\ dbRead.db = [tag |-> "some", code |-> "o1"]
    /\ dbRead.result = [tag |-> "ok", value |-> "s1"]

(***************************************************************************)
(* C24: loading shadow.json is all-or-nothing.  When the value is not an   *)
(* object, or some entry has a key that is not an address or a value that  *)
(* is not a string of hex bytes, construction fails and no set exists;     *)
(* otherwise the set has exactly the configured addresses, each with the   *)
(* bytecode configured for it and the hash of that bytecode.               *)
(***************************************************************************)
BadEntry(e) ==
    \/ ~(IsHex(e.key) /\ e.key[2] \in Addresses)
    \/ e.value.kind # "string"
    \/ ~IsHex(e.value.s)

ConfiguredFor(a) ==
    {i \in DOMAIN shadow.config.entries : shadow.config.entries[i].key[2] = a}

C24_AllOrNothing ==
    shadow.loaded.tag # "none" =>
        LET es == shadow.config.entries
            bad == \/ shadow.config.kind # "object"
                   \/ \E i \in DOMAIN es : BadEntry(es[i])
        IN /\ bad => shadow.loaded = [tag |-> "err"] /\ exex = "failed"
           /\ ~bad =>
                 /\ shadow.loaded.tag = "ok"
                 /\ DOMAIN shadow.loaded.contracts = {es[i].key[2] : i \in DOMAIN es}
                 /\ DOMAIN shadow.loaded.code_hashes = DOMAIN shadow.loaded.contracts
                 /\ \A a \in DOMAIN shadow.loaded.contracts :
                       /\ \E i \in ConfiguredFor(a) :
                             shadow.loaded.contracts[a] = es[i].value.s[2]
                       /\ shadow.loaded.code_hashes[a] =
                             <<"keccak", shadow.loaded.contracts[a]>>

\* a valid entry for a1 followed by an entry whose value is not a string:
\* construction failed and nothing was loaded
C24_Witness ==
    /\ shadow.config.kind = "object"
    /\ Len(shadow.config.entries) = 2
    /\ ~BadEntry(shadow.config.entries[1])
    /\ shadow.config.entries[2].value.kind = "number"
    /\ shadow.loaded = [tag |-> "err"]
    /\ exex = "failed"

(***************************************************************************)
(* C25 as stated: for any batch of shadow logs whose hex fields are        *)
(* lowercase, once the batch has been inserted a query whose filter        *)
(* matches the batch returns, for each inserted log, the RpcLog made from  *)
(* that log: same address, hashes, data and removed flag, four topics with *)
(* the absent ones null, both indexes in decimal and the block number as   *)
(* the 16 hex digits of its 8 big-endian bytes.                            *)
(***************************************************************************)
LowercaseLog(log) ==
    /\ log.address[3] = "lower"
    /\ log.block_hash[3] = "lower"
    /\ log.transaction_hash[3] = "lower"
    /\ log.data # None => log.data[3] = "lower"
    /\ \A t \in {log.topic_0, log.topic_1, log.topic_2, log.topic_3} :
          t # None => t[3] = "lower"

ExpectedRpcLog(log) ==
    [address |-> log.address,
     block_hash |-> log.block_hash,
     block_number |-> hex_encode_be(log.block_number),
     data |-> log.data,
     log_index |-> u64_to_string(log.block_log_index),
     removed |-> log.removed,
     topics |-> <<log.topic_0, log.topic_1, log.topic_2, log.topic_3>>,
     transaction_hash |-> log.transaction_hash,
     transaction_index |-> u64_to_string(log.transaction_index)]

C25_StoreRoundTrip ==
    (/\ rpc.op = "get_logs"
     /\ tasks[1].ok
     /\ \A i \in DOMAIN tasks[1].shadow_logs :
           LowercaseLog(tasks[1].shadow_logs[i]))
    => /\ rpc.resp.tag = "ok"
       /\ rpc.resp.value =
             [i \in DOMAIN tasks[1].shadow_logs |->
                ExpectedRpcLog(tasks[1].shadow_logs[i])]

(***************************************************************************)
(* C26: a block hash is put on the broadcast exactly once for each block   *)
(* and transition.  A persistence task holds each block of its batch once  *)
(* and a revert task holds its one block; only a task that has run its     *)
(* store statement publishes, one hash per step, and the hash leaves the   *)
(* task with that step, so that no hash is published twice for the same    *)
(* transition and none is dropped.                                         *)
(***************************************************************************)
PendingHashes == Len(Flatten([t \in DOMAIN tasks |-> tasks[t].block_hashes]))

HashToSend(task) ==
    IF task.kind = "reorg" THEN to_lower_hex(task.block_hashes[1])
    ELSE task.block_hashes[1]

C26_EmittedOncePerTransition ==
    /\ [](\A t \in DOMAIN tasks :
            /\ \A p, q \in DOMAIN tasks[t].block_hashes :
                  p # q => tasks[t].block_hashes[p] # tasks[t].block_hashes[q]
            /\ (tasks[t].kind = "commit" /\ tasks[t].pc = "insert") =>
                  Range(tasks[t].block_hashes) =
                     {tasks[t].shadow_logs[j].block_hash :
                         j \in DOMAIN tasks[t].shadow_logs}
            /\ tasks[t].kind = "reorg" => Len(tasks[t].block_hashes) = 1)
    /\ [][IF handled' # handled THEN published' = published
          ELSE /\ Len(published') + PendingHashes' =
                     Len(published) + PendingHashes
               /\ published' # published =>
                     \E t \in DOMAIN tasks :
                        /\ tasks[t].pc = "send"
                        /\ published' = Append(published, HashToSend(tasks[t]))
                        /\ \/ /\ Len(tasks[t].block_hashes) = 1
                              /\ tasks' = RemoveAt(tasks, t)
                           \/ tasks' = [tasks EXCEPT
                                          ![t].block_hashes = Tail(@)]
         ]_vars

\* blocks 9 and 10 were committed and persisted, block 10 was reverted and
\* every task has finished: the hash of block 9 was published once, the
\* hash of block 10 once for the commit and once for the revert
C26_Witness ==
    /\ Len(handled) = 2
    /\ handled[1].kind = "ChainCommitted"
    /\ Len(handled[1].blocks) = 2
    /\ handled[2] = [kind |-> "ChainReverted", blocks |-> <<<<"keccak", 10, "x">>>>]
    /\ tasks = <<>>
    /\ \E i, j \in DOMAIN store :
          /\ store[i].block_hash = <<"keccak", 9, "x">>
          /\ store[j].block_hash = <<"keccak", 10, "x">>
          /\ store[j].removed
    /\ CountIn(Hex(<<"keccak", 9, "x">>), published) = 1
    /\ CountIn(Hex(<<"keccak", 10, "x">>), published) = 2

(***************************************************************************)
(* C27: a notification that is neither ChainCommitted nor ChainReverted    *)
(* is ignored: handling it changes no row of the store, schedules no task, *)
(* publishes no hash, sends no FinishedHeight and leaves the handler       *)
(* running, ready for the next notification.                               *)
(***************************************************************************)
C27_OtherNotificationIgnored ==
    [][(/\ handled' # handled
        /\ handled'[Len(handled')].kind \notin {"ChainCommitted", "ChainReverted"})
       => /\ store' = store
          /\ tasks' = tasks
          /\ published' = published
          /\ events' = events
          /\ exex = "running"
          /\ exex' = "running"
      ]_vars

\* a notification of another kind was handled first and left nothing
\* behind; the commit handled after it was executed, persisted, published
\* and acknowledged
C27_Witness ==
    /\ Len(handled) = 2
    /\ handled[1].kind = "ChainReorged"
    /\ handled[2].kind = "ChainCommitted"
    /\ Len(events) = 1
    /\ store # <<>>
    /\ published # <<>>
    /\ exex = "running"

(***************************************************************************)
(* C28: a failure of the store in a background insert or invalidation is   *)
(* not propagated.  The step in which a task's statement fails changes     *)
(* neither the handler's state nor the events; the handler fails only      *)
(* while handling a notification; and in every state there is one          *)
(* FinishedHeight for each commit the handler got through, whatever        *)
(* became of its insert.                                                   *)
(***************************************************************************)
StatementFailed(t) ==
    /\ tasks[t].pc \in {"insert", "update"}
    /\ Len(tasks') = Len(tasks)
    /\ tasks'[t].pc = "send"
    /\ ~tasks'[t].ok

C28_StoreFailureNotPropagated ==
    /\ [][\A t \in DOMAIN tasks :
             StatementFailed(t) =>
                /\ store' = store
                /\ exex' = exex
                /\ events' = events
                /\ handled' = handled]_vars
    /\ [][(exex' = "failed" /\ exex # "failed") => handled' # handled]_vars
    /\ [](Len(events) = Len(CommitsHandledOk))

\* the insert of the first commit failed and nothing was stored; both
\* commits were acknowledged and the handler is running, the task of the
\* second commit waiting to insert
C28_Witness ==
    /\ Len(handled) = 2
    /\ handled[1].kind = "ChainCommitted"
    /\ handled[2].kind = "ChainCommitted"
    /\ Len(tasks) = 2
    /\ tasks[1].kind = "commit"
    /\ tasks[1].pc = "send"
    /\ ~tasks[1].ok
    /\ tasks[1].shadow_logs # <<>>
    /\ tasks[2].pc = "insert"
    /\ store = <<>>
    /\ Len(events) = 2
    /\ exex = "running"

(***************************************************************************)
(* C29 as stated: a persistence task publishes the hash of a block only    *)
(* when its bulk insert succeeded, the rows of that block from its batch   *)
(* being in the store at that moment.                                      *)
(***************************************************************************)
Sends(t) ==
    /\ tasks[t].pc = "send"
    /\ published' = Append(published, HashToSend(tasks[t]))
    /\ \/ tasks' = RemoveAt(tasks, t)
       \/ tasks' = [tasks EXCEPT ![t].block_hashes = Tail(@)]

C29_PublishedOnlyAfterPersisted ==
    [][\A t \in DOMAIN tasks :
          (tasks[t].kind = "commit" /\ Sends(t)) =>
             /\ tasks[t].ok
             /\ \A j \in DOMAIN tasks[t].shadow_logs :
                   tasks[t].shadow_logs[j].block_hash = HashToSend(tasks[t]) =>
                      \E i \in DOMAIN store :
                         [store[i] EXCEPT !.removed = FALSE] =
                            RowOf(tasks[t].shadow_logs[j])
      ]_vars

(***************************************************************************)
(* C30: handling a ChainReverted schedules one task per block of the old   *)
(* chain and sends no FinishedHeight.  A revert task runs its update       *)
(* before it publishes: the update step publishes nothing, an update that  *)
(* went through leaves every row of the block removed, which a query by    *)
(* the block's hash then returns with removed = true, and a removed row    *)
(* stays removed, so that this is what a subscriber woken by the hash      *)
(* reads for those rows.                                                   *)
(***************************************************************************)
NoFilter == [address |-> None, topics |-> None]

C30_RevertInvalidatesThenPublishes ==
    /\ [][(/\ handled' # handled
           /\ handled'[Len(handled')].kind = "ChainReverted") =>
             /\ events' = events
             /\ store' = store
             /\ published' = published
             /\ tasks' = tasks \o
                  [k \in DOMAIN handled'[Len(handled')].blocks |->
                     [kind |-> "reorg", pc |-> "update", ok |-> FALSE,
                      shadow_logs |-> <<>>,
                      block_hashes |-> <<handled'[Len(handled')].blocks[k]>>]]
         ]_vars
    /\ [][\A t \in DOMAIN tasks :
            (/\ tasks[t].kind = "reorg"
             /\ tasks[t].pc = "update"
             /\ Len(tasks') = Len(tasks)
             /\ tasks'[t] # tasks[t]) =>
               /\ published' = published
               /\ tasks'[t] = [tasks[t] EXCEPT !.pc = "send",
                                               !.ok = tasks'[t].ok]
               /\ tasks'[t].ok =>
                    LET h == tasks[t].block_hashes[1]
                        resp == subscription_query(FullProvider, NoFilter,
                                                   Hex(h), store').resp
                    IN /\ \A i \in RowsOf(store, h) : store'[i].removed
                       /\ resp.tag = "ok"
                       /\ Len(resp.value) = Cardinality(RowsOf(store, h))
                       /\ \A k \in DOMAIN resp.value : resp.value[k].removed
         ]_vars
    /\ [][\A t \in DOMAIN tasks :
            (tasks[t].kind = "reorg" /\ published' # published /\ Sends(t))
               => tasks[t].pc = "send" /\ events' = events /\ store' = store
         ]_vars
    /\ [][\A i \in DOMAIN store :
            store[i].removed => i \in DOMAIN store' /\ store'[i].removed
         ]_vars

\* blocks 9 and 10 were committed and persisted and acknowledged once; the
\* revert of both scheduled two tasks, which marked every row removed and
\* then published the two hashes
C30_Witness ==
    /\ Len(handled) = 2
    /\ handled[2].kind = "ChainReverted"
    /\ Len(handled[2].blocks) = 2
    /\ tasks = <<>>
    /\ Len(events) = 1
    /\ Len(published) = 4
    /\ \E i, j \in DOMAIN store :
          /\ store[i].block_hash = <<"keccak", 9, "x">>
          /\ store[j].block_hash = <<"keccak", 10, "x">>
    /\ \A i \in DOMAIN store : store[i].removed

(***************************************************************************)
(* C31: the rows of a batch enter the store in one step.  Whenever the     *)
(* number of rows changes, the step appended the rows of every log of one  *)
(* persistence task, in the batch's order, and a query for all rows of the *)
(* store returns the earlier result followed by the whole batch; the step  *)
(* of an insert that failed leaves the store as it was.                    *)
(***************************************************************************)
InsertStep(t) ==
    /\ tasks[t].kind = "commit"
    /\ tasks[t].pc = "insert"
    /\ \/ tasks' = RemoveAt(tasks, t)
       \/ /\ Len(tasks') = Len(tasks)
          /\ tasks' = [tasks EXCEPT ![t].pc = "send", ![t].ok = tasks'[t].ok]

AllRows(table) == [i \in DOMAIN table |-> RpcLogFrom(ShadowLogFromRow(table[i]))]

C31_BatchAtomic ==
    /\ [][Len(store') # Len(store) =>
            \E t \in DOMAIN tasks :
               /\ InsertStep(t)
               /\ tasks[t].shadow_logs # <<>>
               /\ store' = store \o [j \in DOMAIN tasks[t].shadow_logs |->
                                       RowOf(tasks[t].shadow_logs[j])]
               /\ AllRows(store') = AllRows(store) \o
                     [j \in DOMAIN tasks[t].shadow_logs |->
                        RpcLogFrom(tasks[t].shadow_logs[j])]
         ]_vars
    /\ [][\A t \in DOMAIN tasks :
            (/\ InsertStep(t)
             /\ Len(tasks') = Len(tasks)
             /\ ~tasks'[t].ok) => store' = store
         ]_vars

\* the insert of a batch of two or more rows failed while the rows of an
\* earlier batch are in the store: the store holds the earlier batch only
C31_Witness ==
    /\ Len(handled) = 2
    /\ Len(tasks) = 1
    /\ tasks[1].kind = "commit"
    /\ tasks[1].pc = "send"
    /\ ~tasks[1].ok
    /\ Len(tasks[1].shadow_logs) >= 2
    /\ store # <<>>
    /\ \A i \in DOMAIN store :
          store[i].block_hash # BlobLiteral(tasks[1].shadow_logs[1].block_hash)

(***************************************************************************)
(* C32 as stated: the rows a query returns are in ascending order of       *)
(* block number and, within a block, of block_log_index, whatever the      *)
(* order in which the persistence tasks inserted their batches.            *)
(***************************************************************************)
EveryBlock ==
    [addresses |-> <<>>,
     block_id |-> [tag |-> "BlockRange", from |-> 1, to |-> 99],
     topics |-> [k \in 0..3 |-> None]]

C32_QuerySorted ==
    LET result == exec_query(EveryBlock, store) IN
    /\ result.tag = "ok"
    /\ Len(result.value) = Len(store)
    /\ \A p, q \in DOMAIN result.value :
          p < q =>
             \/ result.value[p].block_number < result.value[q].block_number
             \/ /\ result.value[p].block_number = result.value[q].block_number
                /\ result.value[p].block_log_index
                      <= result.value[q].block_log_index

(***************************************************************************)
(* C33: when the receiver of a subscription lagged, the task goes on: it   *)
(* stays accepted, sends nothing for the hashes it missed and continues    *)
(* with a later hash, and a hash it receives is processed as usual, every  *)
(* row of the query being sent.  The task ends only in a step that         *)
(* receives one hash or none, never in a step that skips hashes.           *)
(***************************************************************************)
Lagged ==
    /\ rpc'.next > rpc.next
    /\ rpc' = [rpc EXCEPT !.next = rpc'.next]

Received ==
    /\ rpc.next <= Len(published)
    /\ LET out == subscription_query(provider, rpc.params,
                                     published[rpc.next], store)
       IN /\ out.resp.tag = "ok"
          /\ rpc' = [rpc EXCEPT !.next = @ + 1, !.sink = @ \o out.resp.value]

C33_LagIsSkipped ==
    [][rpc' # rpc =>
         /\ rpc.state = "accepted"
         /\ \/ Lagged
            \/ Received
            \/ /\ rpc'.state = "ended"
               /\ rpc'.sink = rpc.sink
               /\ rpc'.next \in {rpc.next, rpc.next + 1}
         /\ rpc'.next > rpc.next + 1 => Lagged
      ]_vars

\* the subscriber missed the hash of block 9, sent nothing for it, and then
\* received the hash of block 10 and sent that block's row
C33_Witness ==
    /\ rpc.op = "subscription"
    /\ rpc.state = "accepted"
    /\ rpc.params.address = None
    /\ published = <<Hex(<<"keccak", 9, "x">>), Hex(<<"keccak", 10, "x">>)>>
    /\ rpc.next = 3
    /\ rpc.sink # <<>>
    /\ \A k \in DOMAIN rpc.sink :
          rpc.sink[k].block_hash = Hex(<<"keccak", 10, "x">>)
    /\ \E i \in DOMAIN store : store[i].block_hash = <<"keccak", 9, "x">>

(***************************************************************************)
(* C34 as stated: an accepted subscription task ends only when the         *)
(* broadcast has closed or a send on the sink failed; while both stay open *)
(* it does not end.                                                        *)
(***************************************************************************)
BroadcastClosed ==
    /\ exex # "running"
    /\ tasks = <<>>
    /\ rpc.next > Len(published)

SinkErrored ==
    /\ rpc.next <= Len(published)
    /\ LET out == subscription_query(provider, rpc.params,
                                     published[rpc.next], store)
       IN out.resp.tag = "ok" /\ out.resp.value # <<>>

C34_ExitsOnlyOnCloseOrSinkError ==
    [][(rpc.state = "accepted" /\ rpc'.state = "ended") =>
          BroadcastClosed \/ SinkErrored]_vars

(***************************************************************************)
(* C35: a single transaction never fails a batch.  Every block of the      *)
(* batch executed so far returned Ok with its own ExecutedBlock; a         *)
(* transaction that was skipped (its signer cannot be recovered, or the    *)
(* EVM returned an error) has no execution result and no shadow log, and   *)
(* the layered state holds exactly the state changes of the transactions   *)
(* that have a result, in the order of the blocks' transaction lists.      *)
(***************************************************************************)
ResultTransactions(executed_block) ==
    {executed_block.results[i].transaction : i \in DOMAIN executed_block.results}

CanonicalResults(executed_block) ==
    LET txs == executed_block.block.transactions
    IN  SelectSeqIdx(txs, {k \in DOMAIN txs :
                              txs[k] \in ResultTransactions(executed_block)}, 1)

C35_SkippedTransactionNeverFailsBatch ==
    rpc.op = "execute" =>
        /\ Len(handled) <= Len(rpc.chain)
        /\ \A k \in DOMAIN handled :
              LET executed_block == handled[k]
                  skipped == Range(rpc.chain[k].transactions) \
                                 ResultTransactions(executed_block)
              IN  /\ executed_block.block = rpc.chain[k]
                  /\ ResultTransactions(executed_block) \subseteq
                         Range(rpc.chain[k].transactions) \ rpc.unrecoverable
                  /\ Cardinality(ResultTransactions(executed_block)) =
                         Len(executed_block.results)
                  /\ \A j \in DOMAIN logs(executed_block) :
                         \A t \in skipped :
                             logs(executed_block)[j].transaction_hash # to_lower_hex(t)
        /\ dbRead.transactions =
               Flatten([k \in DOMAIN handled |-> CanonicalResults(handled[k])])

\* the first transaction of block 9 was skipped; the second one and the
\* transaction of block 10 were executed and committed all the same
C35_Witness ==
    /\ rpc.op = "execute"
    /\ Len(handled) = 2
    /\ "x1" \in rpc.unrecoverable
    /\ ResultTransactions(handled[1]) = {"x2"}
    /\ ResultTransactions(handled[2]) = {"x3"}
    /\ Len(logs(handled[1])) > 0
    /\ dbRead.transactions = <<"x2", "x3">>

(***************************************************************************)
(* C36: the Log Store is append-only apart from the removed flag.  In      *)
(* every step of the pipeline, whichever bulk inserts and invalidations    *)
(* came before, every stored row stays at its place, every field of it     *)
(* other than removed keeps its value, and a row that is removed stays     *)
(* removed.                                                                *)
(***************************************************************************)
C36_AppendOnlyButRemoved ==
    [][/\ Len(store') >= Len(store)
       /\ \A i \in DOMAIN store :
             /\ [store'[i] EXCEPT !.removed = FALSE] =
                   [store[i] EXCEPT !.removed = FALSE]
             /\ store[i].removed => store'[i].removed
      ]_vars

\* a batch of two blocks was inserted and the second block invalidated:
\* the rows of both are still stored, those of block 10 removed
C36_Witness ==
    /\ Len(handled) = 2
    /\ tasks = <<>>
    /\ \E i, j \in DOMAIN store :
          /\ i < j
          /\ store[i].block_hash = <<"keccak", 9, "x">>
          /\ ~store[i].removed
          /\ store[j].block_hash = <<"keccak", 10, "x">>
          /\ store[j].removed

(***************************************************************************)
(* C37: when the read-only snapshot of a ChainCommitted notification       *)
(* cannot be opened, or the notification holds no block, the handler       *)
(* leaves its loop at that notification: the step spawns no task, inserts  *)
(* and publishes nothing and sends no FinishedHeight, and from then on no  *)
(* notification is handled, no task is spawned and no event is sent.       *)
(***************************************************************************)
C37_FailedCommitStopsHandler ==
    [][/\ (exex = "running" /\ exex' = "failed") =>
             /\ Len(handled') = Len(handled) + 1
             /\ handled'[Len(handled')].kind = "ChainCommitted"
             /\ tasks' = tasks
             /\ store' = store
             /\ published' = published
             /\ events' = events
       /\ exex = "failed" =>
             /\ exex' = "failed"
             /\ handled' = handled
             /\ events' = events
             /\ Len(tasks') <= Len(tasks)
      ]_vars

\* a first commit was handled, persisted and published; the snapshot of the
\* second one could not be opened, and the handler has stopped with one
\* FinishedHeight sent and the rows of the first commit only
C37_Witness ==
    /\ exex = "failed"
    /\ Len(handled) = 2
    /\ handled[1].kind = "ChainCommitted"
    /\ handled[2].kind = "ChainCommitted"
    /\ handled[2].blocks = handled[1].blocks
    /\ Len(events) = 1
    /\ tasks = <<>>
    /\ store # <<>>
    /\ \A i \in DOMAIN store : store[i].block_hash \in Range(handled[1].blocks)
    /\ published # <<>>

(***************************************************************************)
(* C38: the block-range predicate compares block numbers as integers: a    *)
(* stored row with block number n is selected by the range [from, to]      *)
(* exactly when from <= n <= to, also when the decimal representations of  *)
(* n, from and to have different numbers of digits.                        *)
(***************************************************************************)
RangeBounds == {0, 1, 5, 9, 10, 11, 99, 100}

C38_RangeComparesIntegers ==
    \A i \in DOMAIN store : \A from \in RangeBounds : \A to \in RangeBounds :
        block_range_clause(BlockRange(from, to), store[i]) <=>
            /\ from <= FromText(store[i].block_number)
            /\ FromText(store[i].block_number) <= to

(***************************************************************************)
(* C39: commit/revert race.  When a ChainCommitted containing block B was  *)
(* handled, a ChainReverted containing B was handled after it and every    *)
(* background task spawned for the two notifications has completed, every  *)
(* stored row with B's block hash has removed = true, whatever the order   *)
(* in which the tasks ran.                                                 *)
(***************************************************************************)
CommittedThenReverted(h) ==
    \E j, k \in DOMAIN handled :
        /\ j < k
        /\ handled[j].kind = "ChainCommitted"
        /\ handled[k].kind = "ChainReverted"
        /\ h \in Range(handled[j].blocks)
        /\ h \in Range(handled[k].blocks)

\* the statement of every task of the two notifications has gone through:
\* the store is what it will be when the tasks have completed
StatementsDone ==
    /\ Len(handled) = 2
    /\ Len(tasks) = 1 + Len(handled[2].blocks)
    /\ \A t \in DOMAIN tasks : tasks[t].pc = "send" /\ tasks[t].ok

C39_RevertWinsRace ==
    \A h \in BlockHashes :
        (CommittedThenReverted(h) /\ StatementsDone) =>
            \A i \in RowsOf(store, h) : store[i].removed

(***************************************************************************)
(* C40: the transaction_index of every shadow log synthesized for an       *)
(* executed block is the position (from 0) of the log's transaction in     *)
(* the block's transaction list, also when earlier transactions of the     *)
(* block were skipped, and the logs of one transaction of a block carry    *)
(* the same transaction_index.                                             *)
(***************************************************************************)
C40_TransactionIndexCanonical ==
    rpc.op = "execute" =>
        \A k \in DOMAIN handled :
            LET ls == logs(handled[k]) IN
            /\ \A p \in DOMAIN ls :
                  ls[p].transaction_index = CanonicalIndex(ls[p]) - 1
            /\ \A p, q \in DOMAIN ls :
                  ls[p].transaction_hash = ls[q].transaction_hash =>
                      ls[p].transaction_index = ls[q].transaction_index

====
